---- MODULE Spec2Model ----
(***************************************************************************)
(* Access-tuple reconciliation of the JAAS access resources                *)
(* (internal/provider: genericJAASAccessResource) and the JAAS client      *)
(* calls it makes (internal/juju: jaasClient), against a controller that   *)
(* stores relationship tuples.                                             *)
(***************************************************************************)
EXTENDS Naturals, Sequences, FiniteSets, TLC

VARIABLES
    state,       \* the persisted resource state (req.State / resp.State), or NoState
    controller,  \* the controller's relationship-tuple store: a set of tuples
    config,      \* the configuration being applied: the plan (req.Plan) of Create and Update
    calls,       \* the client calls of the last handler, in order, with their outcome
    ret,         \* what the last jaasClient.ReadTuples returned: [tuples, err], or NoState
    served,      \* what the controller served to the last Read: [pages, fault], or NoState
    hist,        \* the initial state, then one entry per handler run so far
    jaas,        \* what Client.IsJAAS answers: the capability gate
    validated,   \* the verdict of the ConfigValidators on config: "none", "ok", "refused"
    diffIn,      \* SpecDiff: the <<plan, state>> pair given to diffPlans
    diffOut,     \* SpecDiff: what diffPlans returned for diffIn, or NoState
    grant,       \* SpecRoundTrip: the grant given to planToTuples
    folded,      \* SpecRoundTrip: tuplesToPlan of the tuples of grant, or NoState
    controllerConfig,  \* sharedClient.controllerConfig: ClientID and ClientSecret
    checkJAASOnce,     \* sharedClient.checkJAASOnce: "idle", "running" or "done"
    isJAAS,            \* sharedClient.isJAAS
    probes,            \* how many times the body of the JAAS probe was entered
    probe,             \* how the probe ended: "none", "connect", "error" or "ok"
    answers,           \* the booleans the calls of IsJAAS returned so far
    modelCache,        \* sharedClient.modelCache: the table of records
    cacheLock,         \* the caller replacing the table of the cache, or 0
    snapshots,         \* the complete tables the cache has held
    directory,         \* the model summaries the controller lists
    sessions,          \* the number of open sessions (connections)
    pc,                \* where each caller is in its call
    frame,             \* the locals and the result of each caller's call
    started            \* the number of calls started

jaasVars == <<checkJAASOnce, isJAAS, probes, probe, answers>>
cacheVars == <<modelCache, cacheLock, snapshots>>
callVars == <<pc, frame, started, sessions>>
clientVars == <<controllerConfig, directory, jaasVars, cacheVars, callVars>>

vars ==
    <<state, controller, config, calls, ret, served, hist, jaas, validated,
      diffIn, diffOut, grant, folded, clientVars>>

engineVars == <<state, controller, config, calls, ret, served, hist>>
gateVars == <<jaas, validated>>
diffVars == <<diffIn, diffOut>>
roundTripVars == <<grant, folded>>

(***************************************************************************)
(* Bounds of the model.                                                    *)
(***************************************************************************)
\* the most users a plan lists
MaxUsers == 2
\* the most handlers run, from the initial state, in one behaviour
MaxOps == 1
\* the number of concurrent callers of the client
MaxCallers == 2
\* the most calls of the client started in one behaviour
MaxCalls == 2
\* the largest page the controller serves in a listing
MaxPageSize == 2

UserNames == {"alice", "bob", "carol"}
GroupNames == {"admins"}
\* a service account is a user whose identifier ends in this domain
ServiceAccountDomain == "@serviceaccount"
LocalNames == UserNames \cup GroupNames \cup {"svc"}
ServiceAccountNames == {"svc" \o ServiceAccountDomain}

\* the relation ("access") and the target of the one grant the model follows
AccessName == "reader"
TargetKind == "model"
TargetName == "1234"

NoState == [absent |-> TRUE]

\* the variables of a specification that is not running
EngineIdle ==
    /\ state = NoState
    /\ controller = {}
    /\ config = NoState
    /\ calls = <<>>
    /\ ret = NoState
    /\ served = NoState
    /\ hist = <<>>

DiffIdle == diffIn = <<>> /\ diffOut = NoState

RoundTripIdle == grant = NoState /\ folded = NoState

Callers == 1..MaxCallers

\* the locals of a caller that has made no call; seq numbers the calls that
\* change the table of the cache
NoFrame ==
    [call |-> "", name |-> "", lookups |-> 0, lists |-> 0, summaries |-> {},
     err |-> "", uuid |-> "", answer |-> FALSE, waited |-> FALSE,
     observed |-> {}, log |-> <<>>, seq |-> 0, done |-> FALSE]

ClientIdle ==
    /\ controllerConfig = NoState
    /\ checkJAASOnce = "idle"
    /\ isJAAS = FALSE
    /\ probes = 0
    /\ probe = "none"
    /\ answers = {}
    /\ modelCache = {}
    /\ cacheLock = 0
    /\ snapshots = {}
    /\ directory = {}
    /\ sessions = 0
    /\ pc = [p \in Callers |-> "idle"]
    /\ frame = [p \in Callers |-> NoFrame]
    /\ started = 0

\* the controller is a JAAS controller and the configuration passed validation
GatePassed == jaas = TRUE /\ validated = "ok"

(***************************************************************************)
(* types.String of the plugin framework: a value that is known, null or    *)
(* unknown.  String() is its human-readable form: a known value is         *)
(* formatted with %q (in double quotes), null is <null>, unknown is        *)
(* <unknown>; ValueString() would be the bare value.                       *)
(***************************************************************************)
StringValue(s) == [known |-> "known", value |-> s]
StringNull == [known |-> "null", value |-> ""]
StringUnknown == [known |-> "unknown", value |-> ""]

String(v) ==
    IF v.known = "unknown" THEN "<unknown>"
    ELSE IF v.known = "null" THEN "<null>"
    ELSE "\"" \o v.value \o "\""

(***************************************************************************)
(* Sets of strings (types.Set) are kept as their element lists, without    *)
(* duplicates, in the order Elements() gives them.                         *)
(***************************************************************************)
RECURSIVE ListsOver(_, _)
ListsOver(S, n) ==
    IF n = 0 THEN {<<>>}
    ELSE LET shorter == ListsOver(S, n - 1)
         IN shorter \cup
            {Append(l, x) : l \in {m \in shorter : Len(m) = n - 1},
                            x \in S}

NoDuplicates(l) == \A i, j \in 1..Len(l) : l[i] = l[j] => i = j

Elems(l) == {l[i] : i \in 1..Len(l)}

UserLists == {l \in ListsOver(UserNames, MaxUsers) : NoDuplicates(l)}
GroupLists == {l \in ListsOver(GroupNames, 1) : NoDuplicates(l)}
ServiceAccountLists == {l \in ListsOver(ServiceAccountNames, 1) : NoDuplicates(l)}

\* jaasAccessModelByName: the name of the target and the embedded generic model
Models ==
    [Name : {StringValue(TargetName)},
     Users : UserLists,
     Groups : GroupLists,
     ServiceAccounts : ServiceAccountLists,
     Access : {StringValue(AccessName)},
     ID : {StringUnknown}]

\* the zero value of genericJAASAccessModel (var m genericJAASAccessModel)
ZeroModel ==
    [Name |-> StringNull, Users |-> <<>>, Groups |-> <<>>,
     ServiceAccounts |-> <<>>, Access |-> StringNull, ID |-> StringNull]

(***************************************************************************)
(* params.RelationshipTuple                                                *)
(***************************************************************************)
Tuple(object, relation, target) ==
    [Object |-> object, Relation |-> relation, TargetObject |-> target]

\* jaasAccessResourceByName{displayName, tag}, as NewJAASAccessResourceByName builds it
targetInfo == [displayName |-> TargetKind, tag |-> TargetKind]

\* jaasAccessResourceByName.Identity
Identity(info, getter) == info.tag \o "-" \o String(getter.Name)

userNameToTagf(s) == "user-" \o s
groupNameToTagf(s) == "group-" \o s

\* idToTag is a function from the items to their tags
makeTuples(baseTuple, items, idToTag) ==
    [i \in 1..Len(items) |-> [baseTuple EXCEPT !.Object = idToTag[items[i]]]]

planToTuples(targetTag, p) ==
    LET baseTuple == Tuple(targetTag, String(p.Access), "")
        users == [s \in Elems(p.Users) \cup Elems(p.ServiceAccounts) |->
                     userNameToTagf(s)]
        groups == [s \in Elems(p.Groups) |-> groupNameToTagf(s)]
    IN makeTuples(baseTuple, p.Users, users)
       \o makeTuples(baseTuple, p.Groups, groups)
       \o makeTuples(baseTuple, p.ServiceAccounts, users)

\* a mutant of diffSet: the elements of current that desired ALSO holds
diffSetKeepsCommon(current, desired) ==
    SelectSeq(current, LAMBDA source :
        \E j \in 1..Len(desired) : source = desired[j])

diffSet(current, desired) ==
    SelectSeq(current, LAMBDA source :
        ~ \E j \in 1..Len(desired) : source = desired[j])

diffPlans(p, s) ==
    [toAdd |->
        [ZeroModel EXCEPT
            !.Users = diffSet(p.Users, s.Users),
            !.Groups = diffSet(p.Groups, s.Groups),
            !.ServiceAccounts = diffSet(p.ServiceAccounts, s.ServiceAccounts)],
     toRemove |->
        [ZeroModel EXCEPT
            !.Users = diffSet(s.Users, p.Users),
            !.Groups = diffSet(s.Groups, p.Groups),
            !.ServiceAccounts = diffSet(s.ServiceAccounts, p.ServiceAccounts)]]

(***************************************************************************)
(* The controller: a store of relationship tuples.  Adding a tuple it      *)
(* holds and removing one it lacks change nothing; a list request matches  *)
(* the stored tuples on the fields it sets, and is served in pages.        *)
(***************************************************************************)
AddRelation(store, batch) == store \cup Elems(batch)

RemoveRelation(store, batch) == store \ Elems(batch)

Matches(t, pattern) ==
    /\ pattern.Object = "" \/ t.Object = pattern.Object
    /\ pattern.Relation = "" \/ t.Relation = pattern.Relation
    /\ pattern.TargetObject = "" \/ t.TargetObject = pattern.TargetObject

\* the elements of a set, as a list (the order in which the controller lists them)
RECURSIVE ListOf(_)
ListOf(S) ==
    IF S = {} THEN <<>>
    ELSE LET x == CHOOSE y \in S : TRUE
         IN <<x>> \o ListOf(S \ {x})

Min(a, b) == IF a < b THEN a ELSE b

\* a listing cut in pages of pageSize tuples; an empty listing is one empty page
PagesOf(listing, pageSize) ==
    LET n == Len(listing)
        k == IF n = 0 THEN 1 ELSE (n + pageSize - 1) \div pageSize
    IN [i \in 1..k |->
           SubSeq(listing, (i - 1) * pageSize + 1, Min(i * pageSize, n))]

\* the continuation token that leads to page i (the first page has none)
TokenOf(i) == IF i = 1 THEN "" ELSE "page" \o ToString(i)

PageOfToken(token, k) == CHOOSE i \in 1..k : TokenOf(i) = token

\* the controller's answer to one list request: the page the request's token
\* names, with the token of the next page; fault names the page whose request
\* fails ("remote") or whose response carries a per-item error ("item")
ListRelationshipTuples(pages, token, fault) ==
    LET i == PageOfToken(token, Len(pages))
    IN IF fault.kind = "remote" /\ fault.page = i
       THEN [err |-> TRUE, Tuples |-> <<>>, ContinuationToken |-> "",
             Errors |-> <<>>]
       ELSE [err |-> FALSE,
             Tuples |-> pages[i],
             ContinuationToken |->
                 IF i = Len(pages) THEN "" ELSE TokenOf(i + 1),
             Errors |-> IF fault.kind = "item" /\ fault.page = i
                        THEN <<"item error">> ELSE <<>>]

NoFault == [kind |-> "none", page |-> 0]
ConnectFault == [kind |-> "connect", page |-> 0]

(***************************************************************************)
(* jaasClient: every call logs the connection it opens, the request it     *)
(* sends and the close of the connection.                                  *)
(***************************************************************************)
Connect(ok) == [call |-> "connect", ok |-> ok]
Close == [call |-> "close", ok |-> TRUE]
Request(call, batch, ok) == [call |-> call, batch |-> batch, ok |-> ok]
ListRequest(token, ok) == [call |-> "list", token |-> token, ok |-> ok]

\* jaasClient.AddTuples: fault is "none", "connect" or "remote"
AddTuples(store, tuples, fault) ==
    IF fault = "connect"
    THEN [err |-> TRUE, controller |-> store, calls |-> <<Connect(FALSE)>>]
    ELSE IF fault = "remote"
    THEN [err |-> TRUE, controller |-> store,
          calls |-> <<Connect(TRUE), Request("add", tuples, FALSE), Close>>]
    ELSE [err |-> FALSE, controller |-> AddRelation(store, tuples),
          calls |-> <<Connect(TRUE), Request("add", tuples, TRUE), Close>>]

\* a mutant of DeleteTuples: a failed connection is attempted once more
DeleteTuplesRetries(store, tuples, fault) ==
    IF fault = "connect"
    THEN [err |-> TRUE, controller |-> store,
          calls |-> <<Connect(FALSE), Connect(FALSE)>>]
    ELSE IF fault = "remote"
    THEN [err |-> TRUE, controller |-> store,
          calls |-> <<Connect(TRUE), Request("remove", tuples, FALSE), Close>>]
    ELSE [err |-> FALSE, controller |-> RemoveRelation(store, tuples),
          calls |-> <<Connect(TRUE), Request("remove", tuples, TRUE), Close>>]

\* jaasClient.DeleteTuples: fault is "none", "connect" or "remote"
DeleteTuples(store, tuples, fault) ==
    IF fault = "connect"
    THEN [err |-> TRUE, controller |-> store, calls |-> <<Connect(FALSE)>>]
    ELSE IF fault = "remote"
    THEN [err |-> TRUE, controller |-> store,
          calls |-> <<Connect(TRUE), Request("remove", tuples, FALSE), Close>>]
    ELSE [err |-> FALSE, controller |-> RemoveRelation(store, tuples),
          calls |-> <<Connect(TRUE), Request("remove", tuples, TRUE), Close>>]

\* a mutant of ReadTuplesLoop: each page replaces the tuples accumulated so far
RECURSIVE ReadTuplesLoopKeepsLastPage(_, _, _, _, _)
ReadTuplesLoopKeepsLastPage(pages, fault, token, tuples, log) ==
    LET response == ListRelationshipTuples(pages, token, fault)
    IN IF response.err
       THEN [err |-> TRUE, tuples |-> <<>>,
             calls |-> Append(log, ListRequest(token, FALSE))]
       ELSE IF Len(response.Errors) > 0
       THEN [err |-> TRUE, tuples |-> <<>>,
             calls |-> Append(log, ListRequest(token, TRUE))]
       ELSE IF response.ContinuationToken = ""
       THEN [err |-> FALSE, tuples |-> response.Tuples,
             calls |-> Append(log, ListRequest(token, TRUE))]
       ELSE ReadTuplesLoopKeepsLastPage(pages, fault,
                                        response.ContinuationToken,
                                        response.Tuples,
                                        Append(log, ListRequest(token, TRUE)))

\* a mutant of ReadTuplesLoop: a response carrying a per-item error does not
\* end the loop
RECURSIVE ReadTuplesLoopIgnoresItemErrors(_, _, _, _, _)
ReadTuplesLoopIgnoresItemErrors(pages, fault, token, tuples, log) ==
    LET response == ListRelationshipTuples(pages, token, fault)
    IN IF response.err
       THEN [err |-> TRUE, tuples |-> <<>>,
             calls |-> Append(log, ListRequest(token, FALSE))]
       ELSE IF response.ContinuationToken = ""
       THEN [err |-> Len(response.Errors) > 0,
             tuples |-> IF Len(response.Errors) > 0 THEN <<>>
                        ELSE tuples \o response.Tuples,
             calls |-> Append(log, ListRequest(token, TRUE))]
       ELSE ReadTuplesLoopIgnoresItemErrors(pages, fault,
                                            response.ContinuationToken,
                                            tuples \o response.Tuples,
                                            Append(log, ListRequest(token, TRUE)))

\* the loop of jaasClient.ReadTuples, from the request carrying token, with the
\* tuples accumulated and the requests logged so far
RECURSIVE ReadTuplesLoop(_, _, _, _, _)
ReadTuplesLoop(pages, fault, token, tuples, log) ==
    LET response == ListRelationshipTuples(pages, token, fault)
    IN IF response.err
       THEN [err |-> TRUE, tuples |-> <<>>,
             calls |-> Append(log, ListRequest(token, FALSE))]
       ELSE IF Len(response.Errors) > 0
       THEN [err |-> TRUE, tuples |-> <<>>,
             calls |-> Append(log, ListRequest(token, TRUE))]
       ELSE IF response.ContinuationToken = ""
       THEN [err |-> FALSE, tuples |-> tuples \o response.Tuples,
             calls |-> Append(log, ListRequest(token, TRUE))]
       ELSE ReadTuplesLoop(pages, fault, response.ContinuationToken,
                           tuples \o response.Tuples,
                           Append(log, ListRequest(token, TRUE)))

\* jaasClient.ReadTuples, against a controller that serves pages
ReadTuples(pages, fault) ==
    IF fault.kind = "connect"
    THEN [err |-> TRUE, tuples |-> <<>>, calls |-> <<Connect(FALSE)>>]
    ELSE LET r == ReadTuplesLoop(pages, fault, "", <<>>, <<Connect(TRUE)>>)
         IN [r EXCEPT !.calls = Append(r.calls, Close)]

(***************************************************************************)
(* Tags.  ParseTag is the inverse of tagging over the names of the model:  *)
(* it fails on every other string.                                         *)
(***************************************************************************)
UserTagKind == "user"
GroupTagKind == "group"

KnownTags ==
    {[kind |-> UserTagKind, id |-> n, text |-> userNameToTagf(n)] :
        n \in UserNames \cup ServiceAccountNames}
    \cup {[kind |-> GroupTagKind, id |-> n, text |-> groupNameToTagf(n)] :
        n \in GroupNames}

ParseTag(s) ==
    IF \E t \in KnownTags : t.text = s
    THEN LET t == CHOOSE u \in KnownTags : u.text = s
         IN [err |-> FALSE, kind |-> t.kind, id |-> t.id]
    ELSE [err |-> TRUE, kind |-> "", id |-> ""]

IsValidServiceAccountId(id) ==
    \E n \in LocalNames : id = n \o ServiceAccountDomain

\* a mutant of FieldOf: every user tag is folded into Users
FieldOfIgnoresServiceAccounts(tag) ==
    IF tag.kind = UserTagKind THEN "Users"
    ELSE IF tag.kind = GroupTagKind THEN "Groups"
    ELSE ""

\* the field of the plan a parsed tag is folded into ("" for any other kind)
FieldOf(tag) ==
    IF tag.kind = UserTagKind
    THEN IF IsValidServiceAccountId(tag.id) THEN "ServiceAccounts" ELSE "Users"
    ELSE IF tag.kind = GroupTagKind THEN "Groups"
    ELSE ""

\* the identifiers, in order, of the tuples whose tag parses and is folded into field
RECURSIVE IdsOf(_, _)
IdsOf(tuples, field) ==
    IF tuples = <<>> THEN <<>>
    ELSE LET tag == ParseTag(Head(tuples).Object)
             rest == IdsOf(Tail(tuples), field)
         IN IF ~ tag.err /\ FieldOf(tag) = field
            THEN <<tag.id>> \o rest
            ELSE rest

\* tuplesToPlan: the plan, and whether a diagnostic error was recorded
tuplesToPlan(tuples) ==
    [failed |-> \E i \in 1..Len(tuples) : ParseTag(tuples[i].Object).err,
     plan |->
        [ZeroModel EXCEPT
            !.Users = IdsOf(tuples, "Users"),
            !.Groups = IdsOf(tuples, "Groups"),
            !.ServiceAccounts = IdsOf(tuples, "ServiceAccounts")]]

(***************************************************************************)
(* The handlers of genericJAASAccessResource.  Each gives the persisted    *)
(* state, the controller's store, the client calls made and whether an     *)
(* error diagnostic was reported, when the handler returns.                *)
(***************************************************************************)
\* the details of the error diagnostics the handlers report ("Client Error",
\* "... , got error: %s") and of the one tuplesToPlan records
CreateError == "Unable to read add access relationships"
ReadError == "Unable to read access rules"
AddError == "Unable to add access rules"
RemoveError == "Unable to remove access rules"
DeleteError == "Unable to delete access rules"
ParseError == "failed to parse relation tag"

\* diag is the detail of the error diagnostic reported, "" when there is none
Outcome(st, store, log, diag) ==
    [state |-> st, controller |-> store, calls |-> log,
     failed |-> diag # "", diag |-> diag]

\* a mutant of CreateOutcome: a tuple the controller already holds is an error
CreateOutcomeRejectsExisting(p, st, store, fault) ==
    LET targetID == Identity(targetInfo, p)
        tuples == planToTuples(targetID, p)
        added == AddTuples(store, tuples, fault)
    IN IF added.err \/ Elems(tuples) \cap store # {}
       THEN Outcome(st, store, added.calls, CreateError)
       ELSE Outcome(p, added.controller, added.calls, "")

\* a mutant of CreateOutcome: the plan is persisted whether or not the add succeeded
CreateOutcomePersistsOnFailure(p, st, store, fault) ==
    LET targetID == Identity(targetInfo, p)
        tuples == planToTuples(targetID, p)
        added == AddTuples(store, tuples, fault)
    IN IF added.err
       THEN Outcome(p, added.controller, added.calls, CreateError)
       ELSE Outcome(p, added.controller, added.calls, "")

\* genericJAASAccessResource.Create
CreateOutcome(p, st, store, fault) ==
    LET targetID == Identity(targetInfo, p)
        tuples == planToTuples(targetID, p)
        added == AddTuples(store, tuples, fault)
    IN IF added.err
       THEN Outcome(st, added.controller, added.calls, CreateError)
       ELSE Outcome(p, added.controller, added.calls, "")

\* a mutant of UpdateOutcome: the remove batch is sent before the add batch
UpdateOutcomeRemovesFirst(p, st, store, fault) ==
    LET diff == diffPlans(p, st)
        targetID == Identity(targetInfo, st)
        removed == DeleteTuples(store, planToTuples(targetID, diff.toRemove),
                                fault.remove)
        added == AddTuples(removed.controller,
                           planToTuples(targetID, diff.toAdd), fault.add)
    IN IF removed.err
       THEN Outcome(st, removed.controller, removed.calls, RemoveError)
       ELSE IF added.err
       THEN Outcome(st, added.controller, removed.calls \o added.calls,
                    AddError)
       ELSE Outcome(p, added.controller, removed.calls \o added.calls, "")

\* a mutant of UpdateOutcome: a failed remove reports the error of a failed add
UpdateOutcomeSameError(p, st, store, fault) ==
    LET diff == diffPlans(p, st)
        targetID == Identity(targetInfo, st)
        added == AddTuples(store, planToTuples(targetID, diff.toAdd), fault.add)
        removed == DeleteTuples(added.controller,
                                planToTuples(targetID, diff.toRemove),
                                fault.remove)
    IN IF added.err
       THEN Outcome(st, added.controller, added.calls, AddError)
       ELSE IF removed.err
       THEN Outcome(st, removed.controller, added.calls \o removed.calls,
                    AddError)
       ELSE Outcome(p, removed.controller, added.calls \o removed.calls, "")

\* a mutant of UpdateOutcome: the remove batch is the whole previous state
UpdateOutcomeRemovesAll(p, st, store, fault) ==
    LET diff == diffPlans(p, st)
        targetID == Identity(targetInfo, st)
        added == AddTuples(store, planToTuples(targetID, diff.toAdd), fault.add)
        removed == DeleteTuples(added.controller,
                                planToTuples(targetID,
                                             [diff.toRemove EXCEPT
                                                 !.Users = st.Users,
                                                 !.Groups = st.Groups,
                                                 !.ServiceAccounts =
                                                     st.ServiceAccounts]),
                                fault.remove)
    IN IF added.err
       THEN Outcome(st, added.controller, added.calls, AddError)
       ELSE IF removed.err
       THEN Outcome(st, removed.controller, added.calls \o removed.calls,
                    RemoveError)
       ELSE Outcome(p, removed.controller, added.calls \o removed.calls, "")

\* a mutant of UpdateOutcome: the remove batch is sent after a failed add too
UpdateOutcomeRemovesAfterFailedAdd(p, st, store, fault) ==
    LET diff == diffPlans(p, st)
        targetID == Identity(targetInfo, st)
        added == AddTuples(store, planToTuples(targetID, diff.toAdd), fault.add)
        removed == DeleteTuples(added.controller,
                                planToTuples(targetID, diff.toRemove),
                                fault.remove)
    IN IF added.err
       THEN Outcome(st, removed.controller, added.calls \o removed.calls,
                    AddError)
       ELSE IF removed.err
       THEN Outcome(st, removed.controller, added.calls \o removed.calls,
                    RemoveError)
       ELSE Outcome(p, removed.controller, added.calls \o removed.calls, "")

\* genericJAASAccessResource.Update: fault.add and fault.remove are the faults
\* of the AddTuples and of the DeleteTuples call
UpdateOutcome(p, st, store, fault) ==
    LET diff == diffPlans(p, st)
        targetID == Identity(targetInfo, st)
        added == AddTuples(store, planToTuples(targetID, diff.toAdd), fault.add)
        removed == DeleteTuples(added.controller,
                                planToTuples(targetID, diff.toRemove),
                                fault.remove)
    IN IF added.err
       THEN Outcome(st, added.controller, added.calls, AddError)
       ELSE IF removed.err
       THEN Outcome(st, removed.controller, added.calls \o removed.calls,
                    RemoveError)
       ELSE Outcome(p, removed.controller, added.calls \o removed.calls, "")

\* a mutant of DeleteOutcome: a tuple the controller lacks is an error
DeleteOutcomeRejectsAbsent(st, store, fault) ==
    LET targetID == Identity(targetInfo, st)
        tuples == planToTuples(targetID, st)
        removed == DeleteTuples(store, tuples, fault)
    IN IF removed.err \/ ~ (Elems(tuples) \subseteq store)
       THEN Outcome(st, store, removed.calls, DeleteError)
       ELSE Outcome(NoState, removed.controller, removed.calls, "")

\* a mutant of DeleteOutcome: only the tuples of the users are removed
DeleteOutcomeUsersOnly(st, store, fault) ==
    LET targetID == Identity(targetInfo, st)
        tuples == planToTuples(targetID, [st EXCEPT !.Groups = <<>>,
                                                    !.ServiceAccounts = <<>>])
        removed == DeleteTuples(store, tuples, fault)
    IN IF removed.err
       THEN Outcome(st, removed.controller, removed.calls, DeleteError)
       ELSE Outcome(NoState, removed.controller, removed.calls, "")

\* genericJAASAccessResource.Delete; the framework drops the state of a
\* resource whose Delete reported no error
DeleteOutcome(st, store, fault) ==
    LET targetID == Identity(targetInfo, st)
        tuples == planToTuples(targetID, st)
        removed == DeleteTuples(store, tuples, fault)
    IN IF removed.err
       THEN Outcome(st, removed.controller, removed.calls, DeleteError)
       ELSE Outcome(NoState, removed.controller, removed.calls, "")

\* the tuple pattern genericJAASAccessResource.Read lists
readTuple(st) == Tuple("", String(st.Access), Identity(targetInfo, st))

\* a mutant of ReadOutcome: the error of ReadTuples does not end the handler
ReadOutcomeIgnoresError(st, store, read) ==
    LET newState == tuplesToPlan(read.tuples)
    IN IF newState.failed
       THEN Outcome(st, store, read.calls, ParseError)
       ELSE Outcome([st EXCEPT !.Users = newState.plan.Users,
                               !.Groups = newState.plan.Groups,
                               !.ServiceAccounts = newState.plan.ServiceAccounts],
                    store, read.calls, IF read.err THEN ReadError ELSE "")

\* genericJAASAccessResource.Read, given what ReadTuples returned
ReadOutcome(st, store, read) ==
    LET newState == tuplesToPlan(read.tuples)
    IN IF read.err
       THEN Outcome(st, store, read.calls, ReadError)
       ELSE IF newState.failed
       THEN Outcome(st, store, read.calls, ParseError)
       ELSE Outcome([st EXCEPT !.Users = newState.plan.Users,
                               !.Groups = newState.plan.Groups,
                               !.ServiceAccounts = newState.plan.ServiceAccounts],
                    store, read.calls, "")

(***************************************************************************)
(* Spec: the handlers of one access resource, run one after the other      *)
(* (one writer per grant), against the controller.                         *)
(***************************************************************************)
\* the tag of the target and the tuples of a grant, as the data model defines them
TargetTag == TargetKind \o "-" \o TargetName

GrantTuples(g) ==
    {Tuple(userNameToTagf(u), g.Access.value, TargetTag) :
        u \in Elems(g.Users) \cup Elems(g.ServiceAccounts)}
    \cup {Tuple(groupNameToTagf(n), g.Access.value, TargetTag) :
        n \in Elems(g.Groups)}

\* tuples of every subject of the model, written by others, that a Read of
\* the grant st lists
ListedTuples(st) ==
    {[readTuple(st) EXCEPT !.Object = t.text] : t \in KnownTags}

\* The state the provider starts with: none, or a grant applied earlier.  User
\* names are interchangeable, so its users are taken up to renaming: the first
\* k users of UserOrder.
UserOrder == <<"alice", "bob", "carol">>

InitialStates ==
    {NoState} \cup
    {m \in Models : \E k \in 0..MaxUsers : m.Users = SubSeq(UserOrder, 1, k)}

\* what the controller may hold when the provider starts with state st: nothing,
\* the tuples of the grant, the tuples of every subject as a Read lists them, or
\* the tuples this provider's Create left
InitialStores(st) ==
    IF st = NoState THEN {{}}
    ELSE {{}, GrantTuples(st), ListedTuples(st),
          Elems(planToTuples(Identity(targetInfo, st), st))}

Entry(name, p, fault, o) ==
    [op |-> name, plan |-> p, fault |-> fault, failed |-> o.failed,
     diag |-> o.diag, state |-> o.state, controller |-> o.controller]

Faults == {"none", "connect", "remote"}

UpdateFaults ==
    {[add |-> a, remove |-> r] : a \in Faults, r \in Faults}

InitEngine ==
    /\ state \in InitialStates
    /\ controller \in InitialStores(state)
    /\ config \in Models
    /\ calls = <<>>
    /\ ret = NoState
    /\ served = NoState
    /\ hist = <<Entry("Init", NoState, "none",
                      Outcome(state, controller, <<>>, ""))>>
    /\ GatePassed
    /\ DiffIdle
    /\ RoundTripIdle
    /\ ClientIdle

Ops == Len(hist) - 1

Finish(name, p, fault, o) ==
    /\ state' = o.state
    /\ controller' = o.controller
    /\ calls' = o.calls
    /\ hist' = Append(hist, Entry(name, p, fault, o))
    /\ UNCHANGED <<config, gateVars, diffVars, roundTripVars, clientVars>>

Create(fault) ==
    /\ Ops < MaxOps
    /\ Finish("Create", config, fault,
              CreateOutcome(config, state, controller, fault))
    /\ UNCHANGED <<ret, served>>

Update(fault) ==
    /\ Ops < MaxOps
    /\ state # NoState
    /\ fault.add # "none" => fault.remove = "none"
    /\ Finish("Update", config, fault,
              UpdateOutcome(config, state, controller, fault))
    /\ UNCHANGED <<ret, served>>

Delete(fault) ==
    /\ Ops < MaxOps
    /\ state # NoState
    /\ Finish("Delete", NoState, fault, DeleteOutcome(state, controller, fault))
    /\ UNCHANGED <<ret, served>>

\* the faults of a listing of k pages
ListFaults(k) ==
    {NoFault, ConnectFault}
    \cup {[kind |-> f, page |-> i] : f \in {"remote", "item"}, i \in 1..k}

Read(pageSize) ==
    /\ Ops < MaxOps
    /\ state # NoState
    /\ LET matching == {t \in controller : Matches(t, readTuple(state))}
           pages == PagesOf(ListOf(matching), pageSize)
       IN \E fault \in ListFaults(Len(pages)) :
              LET read == ReadTuples(pages, fault)
              IN /\ ret' = [tuples |-> read.tuples, err |-> read.err]
                 /\ served' = [pages |-> pages, fault |-> fault]
                 /\ Finish("Read", NoState, fault.kind,
                           ReadOutcome(state, controller, read))

Next ==
    \/ \E fault \in Faults : Create(fault)
    \/ \E fault \in UpdateFaults : Update(fault)
    \/ \E fault \in Faults : Delete(fault)
    \/ \E pageSize \in 1..MaxPageSize : Read(pageSize)

Spec == InitEngine /\ [][Next]_vars

(***************************************************************************)
(* Properties of the handlers.                                             *)
(***************************************************************************)
Last == hist[Len(hist)]
Prev == hist[Len(hist) - 1]

\* the last step of the behaviour ran the handler name
Ran(name) == Len(hist) >= 2 /\ Last.op = name

CallsOf(kind) == SelectSeq(calls, LAMBDA c : c.call = kind)

Subjects(g) == Len(g.Users) + Len(g.Groups) + Len(g.ServiceAccounts)

SameElements(a, b) ==
    /\ Elems(a.Users) = Elems(b.Users)
    /\ Elems(a.Groups) = Elems(b.Groups)
    /\ Elems(a.ServiceAccounts) = Elems(b.ServiceAccounts)

\* the tuples the store holds for the target and the relation of the grant
TuplesOfGrant(store) ==
    {t \in store : t.Relation = AccessName /\ t.TargetObject = TargetTag}

\* C1: from a controller whose tuples for (target, relation) are those of the
\* previous state P, a successful Update to D leaves the controller holding,
\* for (target, relation), exactly the tuples of D, and persists D.
C1_Convergence ==
    (/\ Ran("Update")
     /\ ~ Last.failed
     /\ TuplesOfGrant(Prev.controller) = GrantTuples(Prev.state))
    => /\ TuplesOfGrant(controller) = GrantTuples(Last.plan)
       /\ state = Last.plan

\* C3: Create emits exactly one tuple per desired subject, each with the
\* subject's tag as object, the grant's relation and the target tag as
\* targetObject.
C3_CreateTuples ==
    Ran("Create") =>
        \A i \in 1..Len(calls) :
            calls[i].call = "add" =>
                /\ Len(calls[i].batch) = Subjects(Last.plan)
                /\ Elems(calls[i].batch) = GrantTuples(Last.plan)

\* C4: in Update, every tuple of the add batch and of the remove batch
\* carries the grant's relation and the grant's target tag.
C4_UpdateTuples ==
    Ran("Update") =>
        \A i \in 1..Len(calls) :
            calls[i].call \in {"add", "remove"} =>
                \A t \in Elems(calls[i].batch) :
                    /\ t.Relation = AccessName
                    /\ t.TargetObject = TargetTag

\* C5: in every Update the add-tuples call is issued, and has returned
\* successfully, before the remove-tuples call is issued; no remove-tuples
\* call precedes the add-tuples call of the same Update.
C5_AddBeforeRemove ==
    Ran("Update") =>
        /\ Len(CallsOf("add")) <= 1
        /\ Len(CallsOf("remove")) <= 1
        /\ \A i \in 1..Len(calls) :
               calls[i].call = "remove" =>
                   \E j \in 1..(i - 1) :
                       calls[j].call = "add" /\ calls[j].ok

\* an Update that added carol and then removed alice
C5_Witness ==
    /\ Ran("Update")
    /\ ~ Last.failed
    /\ Prev.state.Users = <<"alice", "bob">>
    /\ Last.plan.Users = <<"bob", "carol">>
    /\ Len(CallsOf("add")) = 1
    /\ Len(CallsOf("remove")) = 1
    /\ Len(CallsOf("add")[1].batch) = 1
    /\ CallsOf("add")[1].batch[1].Object = "user-carol"
    /\ Len(CallsOf("remove")[1].batch) = 1
    /\ CallsOf("remove")[1].batch[1].Object = "user-alice"

\* C6: when the desired sets equal the previous sets (same elements, in any
\* order), Update performs no add-tuples call and no remove-tuples call.
C6_NoOpUpdate ==
    (Ran("Update") /\ SameElements(Last.plan, Prev.state)) =>
        /\ CallsOf("add") = <<>>
        /\ CallsOf("remove") = <<>>

\* the tuples a Create or a Delete of the grant g sends to the controller
SentTuples(g) == Elems(planToTuples(Identity(targetInfo, g), g))

\* C7: a Create of a desired state whose Create already ran (its state is
\* persisted and its tuples are on the controller) leaves the controller's
\* tuples and the persisted state as they were and, unless the transport
\* fails, reports no error; and a successful Create leaves exactly that
\* situation behind: Create twice is Create once.
C7_IdempotentCreate ==
    Ran("Create") =>
        /\ (Prev.state = Last.plan /\ SentTuples(Last.plan) \subseteq Prev.controller)
               => /\ controller = Prev.controller
                  /\ state = Prev.state
                  /\ Last.fault = "none" => ~ Last.failed
        /\ ~ Last.failed
               => /\ state = Last.plan
                  /\ SentTuples(Last.plan) \subseteq controller
                  /\ controller = Prev.controller \cup SentTuples(Last.plan)

\* a second Create, of two subjects, that succeeded
C7_Witness ==
    /\ Ran("Create")
    /\ ~ Last.failed
    /\ Prev.state = Last.plan
    /\ Subjects(Last.plan) = 2
    /\ SentTuples(Last.plan) \subseteq Prev.controller
    /\ Cardinality(Prev.controller) = 2

\* C8: Delete of a grant whose tuples are absent from the controller leaves
\* the controller's tuples as they were and, unless the transport fails,
\* reports no error; and a successful Delete leaves the grant's tuples
\* absent: Delete twice is Delete once.
C8_IdempotentDelete ==
    Ran("Delete") =>
        /\ SentTuples(Prev.state) \cap Prev.controller = {}
               => /\ controller = Prev.controller
                  /\ Last.fault = "none" => ~ Last.failed
        /\ ~ Last.failed
               => /\ state = NoState
                  /\ SentTuples(Prev.state) \cap controller = {}
                  /\ controller = Prev.controller \ SentTuples(Prev.state)

\* a Delete, without error, of a grant of two subjects none of whose tuples
\* the controller held, among other tuples
C8_Witness ==
    /\ Ran("Delete")
    /\ ~ Last.failed
    /\ Subjects(Prev.state) = 2
    /\ SentTuples(Prev.state) \cap Prev.controller = {}
    /\ Prev.controller # {}
    /\ controller = Prev.controller

RECURSIVE Concat(_)
Concat(pages) ==
    IF pages = <<>> THEN <<>> ELSE Head(pages) \o Concat(Tail(pages))

\* C9: when the controller serves a listing as k pages, the last with an
\* empty continuation token, ReadTuples returns the concatenation of the k
\* pages, in order, none missing and none duplicated, after k list requests.
C9_PaginationComplete ==
    (Ran("Read") /\ served.fault.kind = "none") =>
        /\ ~ ret.err
        /\ ret.tuples = Concat(served.pages)
        /\ NoDuplicates(ret.tuples)
        /\ Len(CallsOf("list")) = Len(served.pages)
        /\ \A i \in 1..Len(served.pages) :
               CallsOf("list")[i].token = TokenOf(i)

\* a listing of five tuples served as pages of 2, 2 and 1
C9_Witness ==
    /\ Ran("Read")
    /\ served.fault.kind = "none"
    /\ Len(served.pages) = 3
    /\ Len(served.pages[1]) = 2
    /\ Len(served.pages[2]) = 2
    /\ Len(served.pages[3]) = 1
    /\ Len(ret.tuples) = 5

\* C10: if the list request of any page fails, or any page's response
\* carries a per-item error, ReadTuples returns an error and no tuples,
\* whatever it had accumulated, and Read leaves the persisted state unchanged.
C10_NoPartialRead ==
    (Ran("Read") /\ served.fault.kind \in {"remote", "item"}) =>
        /\ ret.err
        /\ ret.tuples = <<>>
        /\ Last.failed
        /\ state = Prev.state
        /\ Len(CallsOf("list")) = served.fault.page

\* a per-item error on the third page, after two pages of two tuples
C10_Witness ==
    /\ Ran("Read")
    /\ served.fault = [kind |-> "item", page |-> 3]
    /\ Len(served.pages[1]) = 2
    /\ Len(served.pages[2]) = 2
    /\ ret.err
    /\ state = Prev.state

\* the add batch of the last Update was applied
AddSucceeded == Len(CallsOf("add")) = 1 /\ CallsOf("add")[1].ok

\* the remove batch of the last Update was not applied
RemoveFailed ==
    \/ Len(CallsOf("connect")) = 2 /\ ~ CallsOf("connect")[2].ok
    \/ Len(CallsOf("remove")) = 1 /\ ~ CallsOf("remove")[1].ok

\* C13: the error Update reports when its add batch succeeded and its remove
\* batch failed differs from the error it reports when the add batch itself
\* fails: the error reported tells which half failed.
C13_DistinctRevokeError ==
    (Ran("Update") /\ Last.failed) =>
        /\ (AddSucceeded /\ RemoveFailed) => Last.diag # AddError
        /\ ~ AddSucceeded => Last.diag = AddError
        /\ Last.diag = RemoveError <=> (AddSucceeded /\ RemoveFailed)

\* an Update that added carol and whose removal of alice the controller refused
C13_Witness ==
    /\ Ran("Update")
    /\ Last.failed
    /\ AddSucceeded
    /\ CallsOf("add")[1].batch # <<>>
    /\ Len(CallsOf("remove")) = 1
    /\ ~ CallsOf("remove")[1].ok
    /\ CallsOf("remove")[1].batch # <<>>
    /\ Last.diag = RemoveError

(***************************************************************************)
(* SpecRead: Read of a grant applied earlier, against a controller that    *)
(* holds, for the target and relation Read lists, any tuples of the        *)
(* subjects of the model and possibly a tuple whose object is not a tag.   *)
(***************************************************************************)
MalformedObject == "bogus"

MalformedTuple(st) == [readTuple(st) EXCEPT !.Object = MalformedObject]

InitRead ==
    /\ state \in InitialStates \ {NoState}
    /\ controller \in SUBSET (ListedTuples(state) \cup {MalformedTuple(state)})
    /\ config = state
    /\ calls = <<>>
    /\ ret = NoState
    /\ served = NoState
    /\ hist = <<Entry("Init", NoState, "none",
                      Outcome(state, controller, <<>>, ""))>>
    /\ GatePassed
    /\ DiffIdle
    /\ RoundTripIdle
    /\ ClientIdle

NextRead == \E pageSize \in 1..MaxPageSize : Read(pageSize)

SpecRead == InitRead /\ [][NextRead]_vars

\* the names whose tag, prefix and name, is the object of one of tuples
IdsListed(tuples, names, prefix) ==
    {n \in names : \E i \in 1..Len(tuples) : tuples[i].Object = prefix \o n}

\* C12: when a tuple the controller returned has an object that is no tag,
\* Read skips it and still persists the Users, Groups and ServiceAccounts of
\* all the other tuples of the listing.
C12_MalformedTagSkipped ==
    (/\ Ran("Read")
     /\ served.fault.kind = "none"
     /\ \E i \in 1..Len(ret.tuples) : ret.tuples[i].Object = MalformedObject)
    => /\ Elems(state.Users) = IdsListed(ret.tuples, UserNames, "user-")
       /\ Elems(state.Groups) = IdsListed(ret.tuples, GroupNames, "group-")
       /\ Elems(state.ServiceAccounts) =
              IdsListed(ret.tuples, ServiceAccountNames, "user-")

(***************************************************************************)
(* SpecGate: the handlers against a controller that may not be a JAAS      *)
(* controller.  The capability gate is consulted by the ConfigValidators   *)
(* of the resource, which run when a configuration is validated; the       *)
(* handlers themselves check only that a client is configured.  A          *)
(* configuration is applied (Create, Update) only once it passed           *)
(* validation; a resource is read and deleted also when there is no        *)
(* configuration of it left to validate.                                   *)
(***************************************************************************)
\* RequiresJAASValidator{Client}: refuses the configuration when the gate is false
RequiresJAASValidator(gate) == IF gate THEN "ok" ELSE "refused"

\* genericJAASAccessResource.ConfigValidators; every configuration of Models
\* sets one of users, groups and service_accounts, possibly to an empty set,
\* and so passes AtLeastOneOf
ConfigValidators(gate) == RequiresJAASValidator(gate)

InitGate ==
    /\ state \in InitialStates
    /\ controller \in InitialStores(state)
    /\ config \in Models
    /\ calls = <<>>
    /\ ret = NoState
    /\ served = NoState
    /\ hist = <<Entry("Init", NoState, "none",
                      Outcome(state, controller, <<>>, ""))>>
    /\ jaas \in BOOLEAN
    /\ validated = "none"
    /\ DiffIdle
    /\ RoundTripIdle
    /\ ClientIdle

ValidateConfig ==
    /\ validated = "none"
    /\ validated' = ConfigValidators(jaas)
    /\ UNCHANGED <<engineVars, jaas, diffVars, roundTripVars, clientVars>>

GatedCreate(fault) == validated = "ok" /\ Create(fault)

GatedUpdate(fault) == validated = "ok" /\ Update(fault)

NextGate ==
    \/ ValidateConfig
    \/ \E fault \in Faults : GatedCreate(fault)
    \/ \E fault \in UpdateFaults : GatedUpdate(fault)
    \/ \E fault \in Faults : Delete(fault)
    \/ \E pageSize \in 1..MaxPageSize : Read(pageSize)

SpecGate == InitGate /\ [][NextGate]_vars

\* C17: when the capability gate is false, a Create, Read, Update or Delete
\* of the access resource is refused with an error and sends no add-tuples,
\* remove-tuples or list-tuples request to the controller.
C17_Gating ==
    (/\ ~ jaas
     /\ Len(hist) >= 2
     /\ Last.op \in {"Create", "Read", "Update", "Delete"})
    => /\ Last.failed
       /\ CallsOf("add") = <<>>
       /\ CallsOf("remove") = <<>>
       /\ CallsOf("list") = <<>>

(***************************************************************************)
(* SpecDiff: diffPlans on every pair of plan and state.                    *)
(***************************************************************************)
InitDiff ==
    /\ diffIn \in Models \X Models
    /\ diffOut = NoState
    /\ EngineIdle
    /\ GatePassed
    /\ RoundTripIdle
    /\ ClientIdle

DiffPlansCall ==
    /\ diffOut = NoState
    /\ diffOut' = diffPlans(diffIn[1], diffIn[2])
    /\ UNCHANGED <<diffIn, engineVars, gateVars, roundTripVars, clientVars>>

NextDiff == DiffPlansCall

SpecDiff == InitDiff /\ [][NextDiff]_vars

\* what the diff of one field must be: add = D \ P and rem = P \ D
DiffFieldCorrect(D, P, add, rem) ==
    /\ Elems(add) = Elems(D) \ Elems(P)
    /\ Elems(rem) = Elems(P) \ Elems(D)
    /\ (Elems(P) \cup Elems(add)) \ Elems(rem) = Elems(D)
    /\ Elems(add) \cap Elems(rem) = {}
    /\ NoDuplicates(add) /\ NoDuplicates(rem)

\* C2: for every plan D and state P, and each of Users, Groups and
\* ServiceAccounts, diffPlans gives toAdd = D \ P and toRemove = P \ D, so that
\* (P \cup toAdd) \ toRemove = D and toAdd and toRemove share no element.
C2_DiffCorrect ==
    diffOut # NoState =>
        LET D == diffIn[1]
            P == diffIn[2]
        IN /\ DiffFieldCorrect(D.Users, P.Users,
                               diffOut.toAdd.Users, diffOut.toRemove.Users)
           /\ DiffFieldCorrect(D.Groups, P.Groups,
                               diffOut.toAdd.Groups, diffOut.toRemove.Groups)
           /\ DiffFieldCorrect(D.ServiceAccounts, P.ServiceAccounts,
                               diffOut.toAdd.ServiceAccounts,
                               diffOut.toRemove.ServiceAccounts)

\* a diff that adds, removes and keeps members, over all three kinds
C2_Witness ==
    /\ diffOut # NoState
    /\ diffIn[1].Users = <<"bob", "carol">>
    /\ diffIn[2].Users = <<"alice", "bob">>
    /\ diffOut.toAdd.Users = <<"carol">>
    /\ diffOut.toRemove.Users = <<"alice">>
    /\ diffOut.toAdd.Groups = <<"admins">>
    /\ diffOut.toRemove.ServiceAccounts = <<"svc@serviceaccount">>

(***************************************************************************)
(* SpecRoundTrip: tuplesToPlan of the tuples planToTuples builds, on every *)
(* grant, also those that list a service account among the users or a      *)
(* plain user among the service accounts.                                  *)
(***************************************************************************)
RoundTripUserLists ==
    {l \in ListsOver(UserNames \cup ServiceAccountNames, MaxUsers) :
        NoDuplicates(l)}

RoundTripServiceAccountLists ==
    {l \in ListsOver(ServiceAccountNames \cup {"alice"}, 1) : NoDuplicates(l)}

Grants ==
    [Name : {StringValue(TargetName)},
     Users : RoundTripUserLists,
     Groups : GroupLists,
     ServiceAccounts : RoundTripServiceAccountLists,
     Access : {StringValue(AccessName)},
     ID : {StringUnknown}]

InitRoundTrip ==
    /\ grant \in Grants
    /\ folded = NoState
    /\ EngineIdle
    /\ GatePassed
    /\ DiffIdle
    /\ ClientIdle

RoundTripCall ==
    /\ folded = NoState
    /\ folded' = tuplesToPlan(planToTuples(Identity(targetInfo, grant), grant))
    /\ UNCHANGED <<grant, engineVars, gateVars, diffVars, clientVars>>

NextRoundTrip == RoundTripCall

SpecRoundTrip == InitRoundTrip /\ [][NextRoundTrip]_vars

\* C11: tuplesToPlan folds the object user-<id> into ServiceAccounts when <id>
\* has the form of a service-account identifier and into Users otherwise, and
\* group-<id> into Groups; so a grant whose Users hold no identifier of that
\* form and whose ServiceAccounts all have it comes back from
\* tuplesToPlan(planToTuples(grant)) with the same Users, Groups and
\* ServiceAccounts.
C11_RoundTrip ==
    folded # NoState =>
        LET ids == Elems(grant.Users) \cup Elems(grant.ServiceAccounts)
        IN /\ ~ folded.failed
           /\ Elems(folded.plan.ServiceAccounts) = ids \cap ServiceAccountNames
           /\ Elems(folded.plan.Users) = ids \ ServiceAccountNames
           /\ Elems(folded.plan.Groups) = Elems(grant.Groups)
           /\ (/\ Elems(grant.Users) \cap ServiceAccountNames = {}
               /\ Elems(grant.ServiceAccounts) \subseteq ServiceAccountNames)
              => SameElements(folded.plan, grant)

\* a user, a group and a service account, each folded back where it was
C11_Witness ==
    /\ folded # NoState
    /\ grant.Users = <<"bob">>
    /\ grant.Groups = <<"admins">>
    /\ grant.ServiceAccounts = <<"svc@serviceaccount">>
    /\ folded.plan.Users = <<"bob">>
    /\ folded.plan.Groups = <<"admins">>
    /\ folded.plan.ServiceAccounts = <<"svc@serviceaccount">>

(***************************************************************************)
(* sharedClient (internal/juju/client.go) under concurrent callers.  A     *)
(* caller is idle or inside one call, which it runs step by step; the      *)
(* steps of different callers interleave.                                  *)
(***************************************************************************)
\* ControllerConfiguration, as far as NewClient reads it
Credentials == {"", "secret"}

ControllerConfigurations == [ClientID : Credentials, ClientSecret : Credentials]

\* a mutant of NewClient: one of the two credentials is enough for the default
NewClientEitherCredential(cfg) ==
    [defaultJAASCheck |-> cfg.ClientID # "" \/ cfg.ClientSecret # ""]

\* NewClient: the default that Client.isJAAS passes to sharedClient.IsJAAS
NewClient(cfg) ==
    [defaultJAASCheck |-> cfg.ClientID # "" /\ cfg.ClientSecret # ""]

\* what the calls of the client leave alone
otherVars ==
    <<engineVars, gateVars, diffVars, roundTripVars, controllerConfig, directory>>

\* a caller starts a call: its locals are reset
Begin(p, call, name) ==
    /\ pc[p] = "idle"
    /\ started < MaxCalls
    /\ started' = started + 1
    /\ frame' = [frame EXCEPT ![p] = [NoFrame EXCEPT !.call = call,
                                                     !.name = name]]

Goto(p, label) == pc' = [pc EXCEPT ![p] = label]

\* Client.IsJAAS: c.isJAAS(), that is sc.IsJAAS(defaultJAASCheck)
CallIsJAAS(p) ==
    /\ Begin(p, "IsJAAS", "")
    /\ Goto(p, "once")
    /\ UNCHANGED <<sessions, jaasVars, cacheVars, otherVars>>

\* sc.checkJAASOnce.Do, entered by the first caller: it runs the function;
\* entered after the function returned: it returns at once
OnceDo(p) ==
    /\ pc[p] = "once"
    /\ checkJAASOnce # "running"
    /\ IF checkJAASOnce = "idle"
       THEN checkJAASOnce' = "running" /\ Goto(p, "probe")
       ELSE checkJAASOnce' = checkJAASOnce /\ Goto(p, "return")
    /\ UNCHANGED <<frame, started, sessions, isJAAS, probes, probe, answers,
                   cacheVars, otherVars>>

\* a mutant of OnceWait: a caller that finds the function running returns at once
OnceWaitReturnsAtOnce(p) ==
    /\ pc[p] = "once"
    /\ checkJAASOnce = "running"
    /\ Goto(p, "return")
    /\ frame' = [frame EXCEPT ![p].waited = TRUE]
    /\ UNCHANGED <<started, sessions, jaasVars, cacheVars, otherVars>>

\* sc.checkJAASOnce.Do, entered while the function runs: the caller waits
OnceWait(p) ==
    /\ pc[p] = "once"
    /\ checkJAASOnce = "running"
    /\ Goto(p, "wait")
    /\ frame' = [frame EXCEPT ![p].waited = TRUE]
    /\ UNCHANGED <<started, sessions, jaasVars, cacheVars, otherVars>>

\* the waiting caller leaves Do once the function has returned
OnceWake(p) ==
    /\ pc[p] = "wait"
    /\ checkJAASOnce = "done"
    /\ Goto(p, "return")
    /\ UNCHANGED <<frame, started, sessions, jaasVars, cacheVars, otherVars>>

\* the function given to Do starts: sc.isJAAS = defaultVal
ProbeDefault(p) ==
    /\ pc[p] = "probe"
    /\ isJAAS' = NewClient(controllerConfig).defaultJAASCheck
    /\ probes' = probes + 1
    /\ Goto(p, "connect")
    /\ UNCHANGED <<frame, started, sessions, checkJAASOnce, probe, answers,
                   cacheVars, otherVars>>

\* conn, err := sc.GetConnection(nil); if err != nil { return }
ProbeConnect(p, ok) ==
    /\ pc[p] = "connect"
    /\ IF ok
       THEN sessions' = sessions + 1 /\ probe' = probe /\ Goto(p, "list")
       ELSE sessions' = sessions /\ probe' = "connect" /\ Goto(p, "exit")
    /\ UNCHANGED <<frame, started, checkJAASOnce, isJAAS, probes, answers,
                   cacheVars, otherVars>>

\* _, err = jc.ListControllers(); if err == nil { sc.isJAAS = true }
ProbeList(p, ok) ==
    /\ pc[p] = "list"
    /\ IF ok
       THEN isJAAS' = TRUE /\ probe' = "ok"
       ELSE isJAAS' = isJAAS /\ probe' = "error"
    /\ Goto(p, "close")
    /\ UNCHANGED <<frame, started, sessions, checkJAASOnce, probes, answers,
                   cacheVars, otherVars>>

\* defer conn.Close()
ProbeClose(p) ==
    /\ pc[p] = "close"
    /\ sessions' = sessions - 1
    /\ Goto(p, "exit")
    /\ UNCHANGED <<frame, started, jaasVars, cacheVars, otherVars>>

\* a mutant of OnceDone: a probe that ended in an error is run again
OnceDoneUnlessError(p) ==
    /\ pc[p] = "exit"
    /\ checkJAASOnce' = IF probe = "ok" THEN "done" ELSE "idle"
    /\ Goto(p, "return")
    /\ UNCHANGED <<frame, started, sessions, isJAAS, probes, probe, answers,
                   cacheVars, otherVars>>

\* the function given to Do returns: Do will not run it again
OnceDone(p) ==
    /\ pc[p] = "exit"
    /\ checkJAASOnce' = "done"
    /\ Goto(p, "return")
    /\ UNCHANGED <<frame, started, sessions, isJAAS, probes, probe, answers,
                   cacheVars, otherVars>>

\* return sc.isJAAS
ReturnIsJAAS(p) ==
    /\ pc[p] = "return"
    /\ answers' = answers \cup {isJAAS}
    /\ frame' = [frame EXCEPT ![p].answer = isJAAS, ![p].done = TRUE]
    /\ Goto(p, "idle")
    /\ UNCHANGED <<started, sessions, checkJAASOnce, isJAAS, probes, probe,
                   cacheVars, otherVars>>

\* one step of sharedClient.IsJAAS
IsJAAS(p) ==
    \/ CallIsJAAS(p)
    \/ OnceDo(p)
    \/ OnceWait(p)
    \/ OnceWake(p)
    \/ ProbeDefault(p)
    \/ \E ok \in BOOLEAN : ProbeConnect(p, ok)
    \/ \E ok \in BOOLEAN : ProbeList(p, ok)
    \/ ProbeClose(p)
    \/ OnceDone(p)
    \/ ReturnIsJAAS(p)

(***************************************************************************)
(* The model cache (internal/juju/modelcache): a table of records, one per *)
(* model name.  Lookup is pure storage; FillCache is a total replace       *)
(* (clear, then one record per summary) inside one mutual-exclusion        *)
(* boundary that readers respect.                                          *)
(***************************************************************************)
ModelNames == {"m1", "m2"}

\* the summary of a model on the controller, and the record made of it
Summary(n) == [name |-> n, uuid |-> "uuid-" \o n]

\* a record of an earlier refill, of a model whose UUID has changed since
StaleRecord == [name |-> "m1", uuid |-> "uuid-old"]

Directories == SUBSET {Summary(n) : n \in ModelNames}

\* modelcache.Cache.Lookup
Lookup(table, name) ==
    IF \E r \in table : r.name = name
    THEN [found |-> TRUE, UUID |-> (CHOOSE r \in table : r.name = name).uuid]
    ELSE [found |-> FALSE, UUID |-> ""]

\* a mutant of LookupAllowed: a reader does not wait for the replace to end
LookupAllowedAlways(lock) == TRUE

\* a reader enters the table only while no replace is under way
LookupAllowed(lock) == lock = 0

\* where ModelUUID returns to with the error err: to the caller of the client,
\* or into GetConnection(modelName), which goes on only without an error
ReturnTo(p, err) ==
    IF frame[p].call = "GetConnection" /\ err = "" THEN "dial" ELSE "idle"

\* sharedClient.ModelUUID(modelName)
CallModelUUID(p, name) ==
    /\ Begin(p, "ModelUUID", name)
    /\ Goto(p, "lookup")
    /\ UNCHANGED <<sessions, jaasVars, cacheVars, otherVars>>

\* a lookup that finds a replace under way waits for it
LookupWait(p) ==
    /\ pc[p] \in {"lookup", "retry"}
    /\ cacheLock # 0
    /\ ~ frame[p].waited
    /\ frame' = [frame EXCEPT ![p].waited = TRUE]
    /\ UNCHANGED <<pc, started, sessions, jaasVars, cacheVars, otherVars>>

\* a mutant of FirstLookup: a miss is returned as NotFound, without a refill
FirstLookupGivesUp(p) ==
    /\ pc[p] = "lookup"
    /\ LookupAllowed(cacheLock)
    /\ LET model == Lookup(modelCache, frame[p].name)
       IN IF model.found
          THEN /\ frame' = [frame EXCEPT ![p].lookups = @ + 1,
                                         ![p].observed = modelCache,
                                         ![p].uuid = model.UUID,
                                         ![p].done = TRUE]
               /\ Goto(p, "idle")
          ELSE /\ frame' = [frame EXCEPT ![p].lookups = @ + 1,
                                         ![p].observed = modelCache,
                                         ![p].err = "NotFound",
                                         ![p].done = TRUE]
               /\ Goto(p, "idle")
    /\ UNCHANGED <<started, sessions, jaasVars, cacheVars, otherVars>>

\* a mutant of FirstLookup: the cache is refilled whether or not the lookup hit
FirstLookupAlwaysRefills(p) ==
    /\ pc[p] = "lookup"
    /\ LookupAllowed(cacheLock)
    /\ frame' = [frame EXCEPT ![p].lookups = @ + 1,
                              ![p].observed = modelCache]
    /\ Goto(p, "fill_connect")
    /\ UNCHANGED <<started, sessions, jaasVars, cacheVars, otherVars>>

\* if model, err := sc.modelCache.Lookup(modelLookup); err == nil { return }
FirstLookup(p) ==
    /\ pc[p] = "lookup"
    /\ LookupAllowed(cacheLock)
    /\ LET model == Lookup(modelCache, frame[p].name)
       IN IF model.found
          THEN /\ frame' = [frame EXCEPT ![p].lookups = @ + 1,
                                         ![p].observed = modelCache,
                                         ![p].uuid = model.UUID,
                                         ![p].done = ReturnTo(p, "") = "idle"]
               /\ Goto(p, ReturnTo(p, ""))
          ELSE /\ frame' = [frame EXCEPT ![p].lookups = @ + 1,
                                         ![p].observed = modelCache]
               /\ Goto(p, "fill_connect")
    /\ UNCHANGED <<started, sessions, jaasVars, cacheVars, otherVars>>

\* fillModelCache: conn, err := sc.GetConnection(nil); ModelUUID returns the error
FillConnect(p, ok) ==
    /\ pc[p] = "fill_connect"
    /\ IF ok
       THEN /\ sessions' = sessions + 1
            /\ frame' = frame
            /\ Goto(p, "fill_list")
       ELSE /\ sessions' = sessions
            /\ frame' = [frame EXCEPT
                            ![p].err = "connect",
                            ![p].done = ReturnTo(p, "connect") = "idle"]
            /\ Goto(p, ReturnTo(p, "connect"))
    /\ UNCHANGED <<started, jaasVars, cacheVars, otherVars>>

\* a mutant of FillList: a listing that failed empties the cache
FillListClearsOnError(p, ok) ==
    /\ pc[p] = "fill_list"
    /\ IF ok
       THEN /\ frame' = [frame EXCEPT ![p].lists = @ + 1,
                                      ![p].summaries = directory]
            /\ modelCache' = modelCache
            /\ Goto(p, "fill_cache")
       ELSE /\ frame' = [frame EXCEPT ![p].lists = @ + 1,
                                      ![p].err = "remote"]
            /\ modelCache' = {}
            /\ Goto(p, "fill_close")
    /\ UNCHANGED <<started, sessions, jaasVars, cacheLock, snapshots, otherVars>>

\* fillModelCache: modelSummaries, err := client.ListModelSummaries(...)
FillList(p, ok) ==
    /\ pc[p] = "fill_list"
    /\ IF ok
       THEN /\ frame' = [frame EXCEPT ![p].lists = @ + 1,
                                      ![p].summaries = directory]
            /\ Goto(p, "fill_cache")
       ELSE /\ frame' = [frame EXCEPT ![p].lists = @ + 1,
                                      ![p].err = "remote"]
            /\ Goto(p, "fill_close")
    /\ UNCHANGED <<started, sessions, jaasVars, cacheVars, otherVars>>

\* a mutant of FillCacheClear: the replace keeps the records the table holds
FillCacheClearKeeps(p) ==
    /\ pc[p] = "fill_cache"
    /\ cacheLock = 0
    /\ cacheLock' = p
    /\ modelCache' = modelCache
    /\ Goto(p, "fill_insert")
    /\ UNCHANGED <<frame, started, sessions, snapshots, jaasVars, otherVars>>

\* sc.modelCache.FillCache(modelSummaries): the replace begins, the table is cleared
FillCacheClear(p) ==
    /\ pc[p] = "fill_cache"
    /\ cacheLock = 0
    /\ cacheLock' = p
    /\ modelCache' = {}
    /\ Goto(p, "fill_insert")
    /\ UNCHANGED <<frame, started, sessions, snapshots, jaasVars, otherVars>>

\* FillCache: one record is inserted per summary
FillCacheInsert(p) ==
    /\ pc[p] = "fill_insert"
    /\ frame[p].summaries \ modelCache # {}
    /\ modelCache' =
           modelCache \cup {CHOOSE r \in frame[p].summaries \ modelCache : TRUE}
    /\ UNCHANGED <<pc, frame, started, sessions, cacheLock, snapshots,
                   jaasVars, otherVars>>

\* FillCache: the replace ends
FillCacheDone(p) ==
    /\ pc[p] = "fill_insert"
    /\ frame[p].summaries \subseteq modelCache
    /\ cacheLock' = 0
    /\ snapshots' = snapshots \cup {modelCache}
    /\ Goto(p, "fill_close")
    /\ UNCHANGED <<frame, started, sessions, modelCache, jaasVars, otherVars>>

\* a mutant of FillClose: the connection is closed only when the listing succeeded
FillCloseOnSuccess(p) ==
    /\ pc[p] = "fill_close"
    /\ IF frame[p].err # ""
       THEN /\ sessions' = sessions
            /\ frame' = [frame EXCEPT ![p].done = TRUE]
            /\ Goto(p, "idle")
       ELSE /\ sessions' = sessions - 1
            /\ frame' = frame
            /\ Goto(p, "retry")
    /\ UNCHANGED <<started, jaasVars, cacheVars, otherVars>>

\* fillModelCache: defer conn.Close(); ModelUUID returns the error of the refill
FillClose(p) ==
    /\ pc[p] = "fill_close"
    /\ sessions' = sessions - 1
    /\ IF frame[p].err # ""
       THEN /\ frame' = [frame EXCEPT
                            ![p].done = ReturnTo(p, frame[p].err) = "idle"]
            /\ Goto(p, ReturnTo(p, frame[p].err))
       ELSE /\ frame' = frame
            /\ Goto(p, "retry")
    /\ UNCHANGED <<started, jaasVars, cacheVars, otherVars>>

\* model, err := sc.modelCache.Lookup(modelLookup), after the refill
SecondLookup(p) ==
    /\ pc[p] = "retry"
    /\ LookupAllowed(cacheLock)
    /\ LET model == Lookup(modelCache, frame[p].name)
           err == IF model.found THEN "" ELSE "NotFound"
       IN /\ frame' = [frame EXCEPT
                          ![p].lookups = @ + 1,
                          ![p].observed = modelCache,
                          ![p].uuid = model.UUID,
                          ![p].err = err,
                          ![p].done = ReturnTo(p, err) = "idle"]
          /\ Goto(p, ReturnTo(p, err))
    /\ UNCHANGED <<started, sessions, jaasVars, cacheVars, otherVars>>

\* one step of sharedClient.ModelUUID
ModelUUID(p) ==
    \/ \E name \in ModelNames : CallModelUUID(p, name)
    \/ LookupWait(p)
    \/ FirstLookup(p)
    \/ \E ok \in BOOLEAN : FillConnect(p, ok)
    \/ \E ok \in BOOLEAN : FillList(p, ok)
    \/ FillCacheClear(p)
    \/ FillCacheInsert(p)
    \/ FillCacheDone(p)
    \/ FillClose(p)
    \/ SecondLookup(p)

(***************************************************************************)
(* GetConnection(modelName) for a model: the name is resolved by ModelUUID *)
(* and, when that returned no error, the connection to the model is        *)
(* dialled; the connection is handed to the caller, who closes it.         *)
(***************************************************************************)
\* sharedClient.GetConnection(modelName), modelName # nil
CallGetConnection(p, name) ==
    /\ Begin(p, "GetConnection", name)
    /\ Goto(p, "lookup")
    /\ UNCHANGED <<sessions, jaasVars, cacheVars, otherVars>>

\* conn, err := connr.Connect()
GetConnectionConnect(p, ok) ==
    /\ pc[p] = "dial"
    /\ frame' = [frame EXCEPT ![p].log = <<Connect(ok)>>,
                              ![p].err = IF ok THEN "" ELSE "dial",
                              ![p].done = TRUE]
    /\ sessions' = IF ok THEN sessions + 1 ELSE sessions
    /\ Goto(p, "idle")
    /\ UNCHANGED <<started, jaasVars, cacheVars, otherVars>>

\* one step of sharedClient.GetConnection(modelName)
GetConnection(p) ==
    \/ \E name \in ModelNames : CallGetConnection(p, name)
    \/ LookupWait(p)
    \/ FirstLookup(p)
    \/ \E ok \in BOOLEAN : FillConnect(p, ok)
    \/ \E ok \in BOOLEAN : FillList(p, ok)
    \/ FillCacheClear(p)
    \/ FillCacheInsert(p)
    \/ FillCacheDone(p)
    \/ FillClose(p)
    \/ SecondLookup(p)
    \/ \E ok \in BOOLEAN : GetConnectionConnect(p, ok)

(***************************************************************************)
(* AddModel and RemoveModel of the client, which hand over to the cache:   *)
(* an upsert of the record of a name, a removal by UUID.  Like the replace *)
(* of a refill they change the table inside the cache's boundary.          *)
(***************************************************************************)
\* modelcache.Cache.AddModel: the record replaces the one of the same name
AddModel(table, rec) == {r \in table : r.name # rec.name} \cup {rec}

\* modelcache.Cache.RemoveModel: removal by UUID
RemoveModel(table, uuid) == {r \in table : r.uuid # uuid}

\* the records callers register and remove
KnownRecords == {Summary(n) : n \in ModelNames}

\* the caller p makes a call that changes the table of the cache
ChangeTable(p, call, rec) ==
    /\ pc[p] = "idle"
    /\ started < MaxCalls
    /\ cacheLock = 0
    /\ started' = started + 1
    /\ frame' = [frame EXCEPT ![p] = [NoFrame EXCEPT !.call = call,
                                                     !.name = rec.name,
                                                     !.uuid = rec.uuid,
                                                     !.seq = started + 1,
                                                     !.done = TRUE]]
    /\ snapshots' = snapshots \cup {modelCache'}
    /\ UNCHANGED <<pc, sessions, cacheLock, jaasVars, otherVars>>

\* sharedClient.AddModel(modelName, modelOwner, modelUUID, modelType)
CallAddModel(p, rec) ==
    /\ modelCache' = AddModel(modelCache, rec)
    /\ ChangeTable(p, "AddModel", rec)

\* sharedClient.RemoveModel(modelUUID)
CallRemoveModel(p, rec) ==
    /\ modelCache' = RemoveModel(modelCache, rec.uuid)
    /\ ChangeTable(p, "RemoveModel", rec)

\* sharedClient.ModelType(modelName): one lookup, and no refill on a miss.  It
\* starts nothing on the controller and is not counted among the calls started.
CallModelType(p, name) ==
    /\ pc[p] = "idle"
    /\ LookupAllowed(cacheLock)
    /\ LET model == Lookup(modelCache, name)
       IN frame' = [frame EXCEPT ![p] =
                       [NoFrame EXCEPT
                           !.call = "ModelType",
                           !.name = name,
                           !.lookups = 1,
                           !.observed = modelCache,
                           !.uuid = model.UUID,
                           !.err = IF model.found THEN "" ELSE "NotFound",
                           !.seq = started,
                           !.done = TRUE]]
    /\ UNCHANGED <<pc, started, sessions, jaasVars, cacheVars, otherVars>>

\* a model is created on the controller, which lists it from then on
CreateModel(rec) ==
    /\ rec \notin directory
    /\ directory' = directory \cup {rec}
    /\ UNCHANGED <<engineVars, gateVars, diffVars, roundTripVars,
                   controllerConfig, jaasVars, cacheVars, callVars>>

\* the caller that created a model registers it with AddModel
RegisterModel(p, rec) ==
    /\ rec \in directory
    /\ CallAddModel(p, rec)

(***************************************************************************)
(* The calls of jaasClient, made through the client: each runs to its end  *)
(* in one step, and the sessions it opened and closed are taken from its   *)
(* log of connections.                                                     *)
(***************************************************************************)
\* the batch the callers send
SessionBatch == <<Tuple(userNameToTagf("alice"), AccessName, TargetTag)>>

Opened(log) == Len(SelectSeq(log, LAMBDA c : c.call = "connect" /\ c.ok))

Closed(log) == Len(SelectSeq(log, LAMBDA c : c.call = "close"))

\* the caller p makes the call named call, which ends with the outcome o
Complete(p, call, o) ==
    /\ pc[p] = "idle"
    /\ started < MaxCalls
    /\ started' = started + 1
    /\ frame' = [frame EXCEPT ![p] = [NoFrame EXCEPT
                                         !.call = call,
                                         !.err = IF o.err THEN "error" ELSE "",
                                         !.log = o.calls,
                                         !.done = TRUE]]
    /\ calls' = o.calls
    /\ sessions' = sessions + Opened(o.calls) - Closed(o.calls)
    /\ UNCHANGED <<pc, state, config, ret, served, hist, gateVars, diffVars,
                   roundTripVars, controllerConfig, directory, jaasVars,
                   cacheVars>>

AddTuplesCall(p, fault) ==
    LET o == AddTuples(controller, SessionBatch, fault)
    IN controller' = o.controller /\ Complete(p, "AddTuples", o)

DeleteTuplesCall(p, fault) ==
    LET o == DeleteTuples(controller, SessionBatch, fault)
    IN controller' = o.controller /\ Complete(p, "DeleteTuples", o)

ReadTuplesCall(p) ==
    LET pages == PagesOf(ListOf(controller), 1)
    IN \E fault \in ListFaults(Len(pages)) :
           /\ controller' = controller
           /\ Complete(p, "ReadTuples", ReadTuples(pages, fault))

\* a client as NewClient leaves it, built from one of configs, for a
\* controller that lists one of summaries
NewClientState(configs, summaries) ==
    /\ controllerConfig \in configs
    /\ checkJAASOnce = "idle"
    /\ isJAAS = FALSE
    /\ probes = 0
    /\ probe = "none"
    /\ answers = {}
    /\ cacheLock = 0
    /\ snapshots = {modelCache}
    /\ directory \in summaries
    /\ sessions = 0
    /\ pc = [p \in Callers |-> "idle"]
    /\ frame = [p \in Callers |-> NoFrame]
    /\ started = 0

(***************************************************************************)
(* SpecJAAS: concurrent callers of IsJAAS on one client.                   *)
(***************************************************************************)
InitJAAS ==
    /\ modelCache = {}
    /\ NewClientState(ControllerConfigurations, {{}})
    /\ EngineIdle
    /\ GatePassed
    /\ DiffIdle
    /\ RoundTripIdle

NextJAAS == \E p \in Callers : IsJAAS(p)

SpecJAAS == InitJAAS /\ [][NextJAAS]_vars

\* the callers whose call of IsJAAS has returned
Answered == {p \in Callers : frame[p].call = "IsJAAS" /\ frame[p].done}

\* C14: on one client the body of the JAAS probe is entered at most once,
\* whatever the number of concurrent and later callers and also when the
\* probe ended in an error, and all calls of IsJAAS return the same boolean.
C14_ProbeOnce ==
    /\ probes <= 1
    /\ Cardinality(answers) <= 1
    /\ \A p, q \in Answered : frame[p].answer = frame[q].answer

\* two callers entered IsJAAS together, one ran the probe, which ended in an
\* error, the other waited, and both have returned
C14_Witness ==
    /\ probes = 1
    /\ probe \in {"connect", "error"}
    /\ Answered = Callers
    /\ \E p \in Callers : frame[p].waited
    /\ \E p \in Callers : ~ frame[p].waited

\* C15: no caller of IsJAAS returns before the probe has completed: a caller
\* that finds the probe running waits for it, and none returns the default
\* written before the connection attempt when the probe then succeeds.
C15_NoEarlyReturn ==
    /\ \A p \in Callers : pc[p] = "return" => checkJAASOnce = "done"
    /\ answers # {} => checkJAASOnce = "done"
    /\ probe = "ok" => answers \subseteq {TRUE}

\* with the default false, a caller waited for the probe, which succeeded,
\* and returned true
C15_Witness ==
    /\ ~ NewClient(controllerConfig).defaultJAASCheck
    /\ probe = "ok"
    /\ \E p \in Answered : frame[p].waited /\ frame[p].answer = TRUE

\* C16: IsJAAS returns true when ListControllers succeeded, whatever the
\* default; when the connection failed or ListControllers returned an error it
\* returns the default, which NewClient sets to true iff ClientID and
\* ClientSecret are both non-empty.
C16_ProbeOutcome ==
    \A p \in Answered :
        /\ probe # "none"
        /\ probe = "ok" => frame[p].answer = TRUE
        /\ probe \in {"connect", "error"} =>
               (frame[p].answer = TRUE <=>
                   (controllerConfig.ClientID # ""
                    /\ controllerConfig.ClientSecret # ""))

\* ListControllers returned an error, both credentials are set, and IsJAAS
\* returned true
C16_Witness ==
    /\ probe = "error"
    /\ controllerConfig.ClientID # ""
    /\ controllerConfig.ClientSecret # ""
    /\ \E p \in Answered : frame[p].answer = TRUE

(***************************************************************************)
(* SpecCache: concurrent callers of ModelUUID on one client, whose cache   *)
(* is empty or holds the table of an earlier refill.                       *)
(***************************************************************************)
InitCache ==
    /\ modelCache \in {{}, {StaleRecord}}
    /\ NewClientState({[ClientID |-> "", ClientSecret |-> ""]}, Directories)
    /\ EngineIdle
    /\ GatePassed
    /\ DiffIdle
    /\ RoundTripIdle

NextCache == \E p \in Callers : ModelUUID(p)

SpecCache == InitCache /\ [][NextCache]_vars

\* C18: a call of ModelUUID refills the cache at most once (at most one
\* ListModelSummaries) and looks up at most twice, the second time only after
\* its refill, and returns NotFound only when the lookup after the refill
\* misses too.
C18_RefillOnce ==
    \A p \in Callers :
        frame[p].call = "ModelUUID" =>
            /\ frame[p].lists <= 1
            /\ frame[p].lookups <= 2
            /\ frame[p].lookups = 2 => frame[p].lists = 1
            /\ frame[p].err = "NotFound" =>
                   /\ frame[p].lookups = 2
                   /\ frame[p].lists = 1
                   /\ \A r \in frame[p].observed : r.name # frame[p].name

\* a miss, a refill that lists another model, and NotFound on the retry
C18_Witness ==
    \E p \in Callers :
        /\ frame[p].done
        /\ frame[p].err = "NotFound"
        /\ frame[p].lookups = 2
        /\ frame[p].lists = 1
        /\ frame[p].summaries # {}
        /\ frame[p].observed = frame[p].summaries

\* C19: the table a lookup reads while another caller replaces it is a
\* complete snapshot, the old one or the new one: never a cleared or partly
\* filled table.
C19_SnapshotAtomic ==
    \A p \in Callers :
        frame[p].lookups > 0 => frame[p].observed \in snapshots

\* a lookup found a replace of the old table under way, waited, and read the
\* new table of two records
C19_Witness ==
    \E p \in Callers :
        /\ frame[p].waited
        /\ frame[p].lookups = 1
        /\ frame[p].observed = directory
        /\ Cardinality(directory) = 2
        /\ {StaleRecord} \in snapshots

(***************************************************************************)
(* SpecSessions: every call of the client that talks to the controller     *)
(* (AddTuples, DeleteTuples, ReadTuples, ModelUUID's refill, the probe of  *)
(* IsJAAS), made by concurrent callers, with the sessions they open.       *)
(***************************************************************************)
InitSessions ==
    /\ modelCache = {}
    /\ NewClientState({[ClientID |-> "", ClientSecret |-> ""]},
                      {{Summary("m1")}})
    /\ EngineIdle
    /\ GatePassed
    /\ DiffIdle
    /\ RoundTripIdle

NextSessions ==
    \E p \in Callers :
        \/ IsJAAS(p)
        \/ ModelUUID(p)
        \/ \E fault \in Faults : AddTuplesCall(p, fault)
        \/ \E fault \in Faults : DeleteTuplesCall(p, fault)
        \/ ReadTuplesCall(p)

SpecSessions == InitSessions /\ [][NextSessions]_vars

\* the callers inside a call
InCall == {p \in Callers : pc[p] # "idle"}

\* C20: every session a call opens is closed when the call returns, on its
\* success and on each of its errors: whenever no call is in progress no
\* session is open, after any sequence of calls.
C20_SessionsReleased ==
    /\ sessions >= 0
    /\ sessions <= Cardinality(InCall)
    /\ InCall = {} => sessions = 0

\* a refill whose listing failed and a delete that the controller refused have
\* both returned, and no session is open
C20_Witness ==
    /\ InCall = {}
    /\ sessions = 0
    /\ \E p, q \in Callers :
           /\ frame[p].call = "ModelUUID"
           /\ frame[p].done
           /\ frame[p].err = "remote"
           /\ frame[q].call = "DeleteTuples"
           /\ frame[q].err = "error"
           /\ Closed(calls) = 1

\* the calls of jaasClient that have returned
TupleCalls == {"AddTuples", "DeleteTuples", "ReadTuples"}

Returned(p) == frame[p].call \in TupleCalls /\ frame[p].done

ConnectFailed(p) == Returned(p) /\ Connect(FALSE) \in Elems(frame[p].log)

\* C21: when connecting fails, AddTuples, DeleteTuples and ReadTuples return
\* the error after exactly one connection attempt, without any add, remove
\* or list request: the failure is not retried.
C21_ConnectionErrorNotRetried ==
    \A p \in Callers :
        ConnectFailed(p) =>
            /\ frame[p].err # ""
            /\ frame[p].log = <<Connect(FALSE)>>

\* each of the three calls has failed to connect
C21_Witness ==
    \E p, q \in Callers :
        /\ ConnectFailed(p)
        /\ ConnectFailed(q)
        /\ frame[p].call = "DeleteTuples"
        /\ frame[q].call = "ReadTuples"

(***************************************************************************)
(* Further properties of the handlers, under Spec.                         *)
(***************************************************************************)
\* the tags of the subjects of a grant, in the order planToTuples takes them
SubjectTags(g) ==
    [i \in 1..Len(g.Users) |-> userNameToTagf(g.Users[i])]
    \o [i \in 1..Len(g.Groups) |-> groupNameToTagf(g.Groups[i])]
    \o [i \in 1..Len(g.ServiceAccounts) |-> userNameToTagf(g.ServiceAccounts[i])]

ObjectsOf(batch) == [i \in 1..Len(batch) |-> batch[i].Object]

\* C22: Delete makes exactly one remove-tuples call, whose batch has one
\* tuple per user, group and service account of the persisted state, and no
\* add-tuples or list-tuples call; when the call fails Delete reports an
\* error.
C22_DeleteOneCall ==
    Ran("Delete") =>
        /\ Len(CallsOf("connect")) = 1
        /\ CallsOf("add") = <<>>
        /\ CallsOf("list") = <<>>
        /\ Len(CallsOf("remove")) = (IF Last.fault = "connect" THEN 0 ELSE 1)
        /\ \A i \in 1..Len(CallsOf("remove")) :
               /\ Len(CallsOf("remove")[i].batch) = Subjects(Prev.state)
               /\ ObjectsOf(CallsOf("remove")[i].batch) = SubjectTags(Prev.state)
        /\ Last.fault # "none" => Last.failed

\* a Delete of a grant of two users, a group and a service account, and one
\* that the controller refused
C22_Witness ==
    /\ Ran("Delete")
    /\ Subjects(Prev.state) = 4
    /\ Len(Prev.state.Groups) = 1
    /\ Len(Prev.state.ServiceAccounts) = 1
    /\ Last.fault = "remote"
    /\ Last.failed
    /\ Len(CallsOf("remove")) = 1

\* the tags of the subjects that both grants hold
CommonTags(a, b) == Elems(SubjectTags(a)) \cap Elems(SubjectTags(b))

C25_OverPermission ==
    (/\ Ran("Update")
     /\ AddSucceeded
     /\ RemoveFailed
     /\ GrantTuples(Prev.state) \subseteq Prev.controller)
    => /\ GrantTuples(Prev.state) \cup GrantTuples(Last.plan) \subseteq controller
       /\ state = Prev.state
       /\ diffPlans(Last.plan, state) = diffPlans(Last.plan, Prev.state)

\* the add-tuples call of the last Update failed
AddFailed == Ran("Update") /\ Last.fault.add # "none"

\* C26: when the add-tuples call of an Update fails, Update makes no
\* remove-tuples call, reports an error and leaves the persisted state as it
\* was.
C26_AddFailureStops ==
    AddFailed =>
        /\ CallsOf("remove") = <<>>
        /\ Len(CallsOf("connect")) = 1
        /\ Last.failed
        /\ state = Prev.state
        /\ controller = Prev.controller

\* an Update that had a subject to remove and whose add the controller refused
C26_Witness ==
    /\ AddFailed
    /\ Len(CallsOf("add")) = 1
    /\ ~ CallsOf("add")[1].ok
    /\ diffPlans(Last.plan, Prev.state).toRemove.Users # <<>>
    /\ state = Prev.state

\* C27: Create makes one add-tuples call; when it fails the persisted state
\* stays as it was (absent if it was absent) and an error is reported; when
\* it succeeds the persisted Users, Groups, ServiceAccounts and Access are
\* the plan's.
C27_CreatePersistsOnSuccess ==
    Ran("Create") =>
        /\ Len(CallsOf("connect")) = 1
        /\ Len(CallsOf("add")) <= 1
        /\ Last.fault # "none" => Last.failed /\ state = Prev.state
        /\ Last.fault = "none" =>
               /\ ~ Last.failed
               /\ state # NoState
               /\ state.Users = Last.plan.Users
               /\ state.Groups = Last.plan.Groups
               /\ state.ServiceAccounts = Last.plan.ServiceAccounts
               /\ state.Access = Last.plan.Access

\* a Create of a grant that was absent and that the controller refused
C27_Witness ==
    /\ Ran("Create")
    /\ Prev.state = NoState
    /\ Subjects(Last.plan) > 0
    /\ Last.fault = "remote"
    /\ Last.failed
    /\ state = NoState

\* C28: Read makes only list-tuples calls, leaves the controller's tuples, the
\* persisted Access and the persisted ID as they were and, when it succeeds,
\* persists as Users, Groups and ServiceAccounts the subjects of all the
\* tuples the controller holds for the target tag and the relation of the
\* grant, whoever wrote them.
C28_ReadAuthoritative ==
    Ran("Read") =>
        /\ \A i \in 1..Len(calls) : calls[i].call \in {"connect", "list", "close"}
        /\ controller = Prev.controller
        /\ state.Access = Prev.state.Access
        /\ state.ID = Prev.state.ID
        /\ ~ Last.failed =>
               LET listed == ListOf(TuplesOfGrant(controller))
               IN /\ Elems(state.Users) = IdsListed(listed, UserNames, "user-")
                  /\ Elems(state.Groups) = IdsListed(listed, GroupNames, "group-")
                  /\ Elems(state.ServiceAccounts) =
                         IdsListed(listed, ServiceAccountNames, "user-")

\* the controller's response to the i-th list request of the last Read
ResponseTo(i) ==
    ListRelationshipTuples(served.pages, CallsOf("list")[i].token, served.fault)

\* the response ends the loop of ReadTuples
Ends(response) ==
    \/ response.err
    \/ Len(response.Errors) > 0
    \/ response.ContinuationToken = ""

\* C29: the first list request of ReadTuples carries an empty continuation
\* token and each later one the token of the response before it; the loop
\* ends with the first response that is an error, carries an error or has an
\* empty token, and no list request follows it.
C29_TokenThreading ==
    (Ran("Read") /\ served.fault.kind # "connect") =>
        LET lists == CallsOf("list")
        IN /\ Len(lists) >= 1
           /\ lists[1].token = ""
           /\ \A i \in 2..Len(lists) :
                  lists[i].token = ResponseTo(i - 1).ContinuationToken
           /\ \A i \in 1..Len(lists) : Ends(ResponseTo(i)) <=> i = Len(lists)
           /\ served.fault.kind = "none" => Len(lists) = Len(served.pages)

\* a listing of three pages whose second response carried an error
C29_Witness ==
    /\ Ran("Read")
    /\ Len(served.pages) = 3
    /\ served.fault = [kind |-> "item", page |-> 2]
    /\ Len(CallsOf("list")) = 2
    /\ CallsOf("list")[2].token = TokenOf(2)

(***************************************************************************)
(* Further properties of the model cache.                                  *)
(***************************************************************************)
\* the refill of p has replaced the table and nobody has begun another
Refilled(p) == pc[p] = "fill_close" /\ frame[p].err = "" /\ cacheLock = 0

UniqueNames(table) == \A r1, r2 \in table : r1.name = r2.name => r1 = r2

\* C23: right after a refill the cache holds exactly one record per summary
\* the controller listed, no two records of one name, and no record that the
\* listing lacks, whatever it held before.
C23_RefillReplaces ==
    \A p \in Callers :
        Refilled(p) =>
            /\ modelCache = frame[p].summaries
            /\ UniqueNames(modelCache)
            /\ StaleRecord \notin modelCache

\* a cache that held a stale record of m1 has been refilled with m1 and m2
C23_Witness ==
    /\ {StaleRecord} \in snapshots
    /\ \E p \in Callers :
           /\ Refilled(p)
           /\ frame[p].summaries = {Summary("m1"), Summary("m2")}
           /\ modelCache = {Summary("m1"), Summary("m2")}

(***************************************************************************)
(* SpecModels: callers that resolve models (ModelUUID), register them      *)
(* (AddModel) and remove them (RemoveModel), concurrently.                 *)
(***************************************************************************)
InitModels ==
    /\ modelCache = {}
    /\ NewClientState({[ClientID |-> "", ClientSecret |-> ""]}, Directories)
    /\ EngineIdle
    /\ GatePassed
    /\ DiffIdle
    /\ RoundTripIdle

NextModels ==
    \E p \in Callers :
        \/ ModelUUID(p)
        \/ \E rec \in KnownRecords : CallAddModel(p, rec)
        \/ \E rec \in KnownRecords : CallRemoveModel(p, rec)

SpecModels == InitModels /\ [][NextModels]_vars

\* the first lookup of p's ModelUUID found a record of the name
Hit(p) ==
    /\ frame[p].call = "ModelUUID"
    /\ frame[p].lookups = 1
    /\ Lookup(frame[p].observed, frame[p].name).found

\* a ModelUUID whose lookup hits returns the UUID of the record at once: no
\* session, no listing
HitCostsNothing ==
    \A p \in Callers :
        Hit(p) =>
            /\ pc[p] = "idle"
            /\ frame[p].done
            /\ frame[p].err = ""
            /\ frame[p].uuid = Lookup(frame[p].observed, frame[p].name).UUID
            /\ frame[p].lists = 0

\* the step is the call named call, of a record named name, by some caller
Called(call, name) ==
    \E q \in Callers :
        /\ frame'[q] # frame[q]
        /\ frame'[q].call = call
        /\ frame'[q].name = name

\* AddModel leaves the record in the table, and leaves the table it would
\* leave if called once more
AddModelRegisters ==
    \A rec \in KnownRecords :
        Called("AddModel", rec.name) =>
            /\ rec \in modelCache'
            /\ AddModel(modelCache', rec) = modelCache'

\* a record leaves the table only by a RemoveModel of its UUID or when a
\* refill begins, and a refill ends with the records of its listing
RecordStays ==
    /\ \A r \in modelCache :
           \/ r \in modelCache'
           \/ Called("RemoveModel", r.name)
           \/ cacheLock' # 0
    /\ (cacheLock # 0 /\ cacheLock' = 0) =>
           modelCache' = frame[cacheLock].summaries

\* C30: after AddModel the record is in the cache and stays there until a
\* RemoveModel of its UUID or a refill whose listing omits it; while it is
\* there ModelUUID of its name returns its UUID without opening a session
\* and without listing the models; AddModel twice with the same arguments
\* leaves the cache that AddModel once leaves.
C30_HitNoRoundTrip ==
    /\ []HitCostsNothing
    /\ [][AddModelRegisters /\ RecordStays]_vars

\* a model that only AddModel made known (the controller lists none) has
\* been resolved by another caller, without a listing
C30_Witness ==
    /\ directory = {}
    /\ \E p, q \in Callers :
           /\ frame[q].call = "AddModel"
           /\ frame[q].name = "m1"
           /\ Hit(p)
           /\ frame[p].name = "m1"
           /\ frame[p].done
           /\ frame[p].uuid = Summary("m1").uuid
           /\ frame[p].lists = 0
           /\ sessions = 0

(***************************************************************************)
(* SpecRefill: concurrent callers that ask for a connection to a model     *)
(* (GetConnection(modelName), which resolves the name with ModelUUID)      *)
(* against a cache that is empty or holds a stale record.                  *)
(***************************************************************************)
InitRefill ==
    /\ modelCache \in {{}, {StaleRecord}}
    /\ NewClientState({[ClientID |-> "", ClientSecret |-> ""]}, Directories)
    /\ EngineIdle
    /\ GatePassed
    /\ DiffIdle
    /\ RoundTripIdle

NextRefill == \E p \in Callers : GetConnection(p)

SpecRefill == InitRefill /\ [][NextRefill]_vars

\* the refill of p has failed: its connection or its listing
RefillFailed(p) == frame[p].err \in {"connect", "remote"}

\* a caller whose refill failed never replaces the table, looks up only
\* once, returns the error and dials no connection for the model
FailedRefillReturns ==
    \A p \in Callers :
        RefillFailed(p) =>
            /\ pc[p] \in {"fill_close", "idle"}
            /\ pc[p] = "idle" => frame[p].done
            /\ frame[p].lookups = 1
            /\ frame[p].lists = (IF frame[p].err = "remote" THEN 1 ELSE 0)
            /\ frame[p].summaries = {}
            /\ frame[p].log = <<>>
            /\ cacheLock # p

\* the step is one of the refill of p
RefillStep(p) ==
    /\ pc[p] \in {"fill_connect", "fill_list", "fill_close"}
    /\ pc'[p] # pc[p]

\* the steps of a refill that fails leave the cache as it is
FailedRefillKeepsCache ==
    \A p \in Callers :
        (RefillStep(p) /\ frame'[p].err # "") =>
            /\ modelCache' = modelCache
            /\ cacheLock' = cacheLock
            /\ snapshots' = snapshots
            /\ pc'[p] \in {"fill_close", "idle"}

\* C31: when the connection or the listing of ModelUUID's refill fails, the
\* cache is left as it was, ModelUUID returns the error without a second
\* lookup, and GetConnection(modelName) dials no connection for the model.
C31_FailedRefill ==
    /\ []FailedRefillReturns
    /\ [][FailedRefillKeepsCache]_vars

\* a GetConnection for m2 whose refill could not list the models has
\* returned, the cache still holding its stale record and nothing else
C31_Witness ==
    /\ modelCache = {StaleRecord}
    /\ snapshots = {{StaleRecord}}
    /\ \E p \in Callers :
           /\ frame[p].call = "GetConnection"
           /\ frame[p].name = "m2"
           /\ frame[p].done
           /\ frame[p].err = "remote"
           /\ frame[p].lists = 1
           /\ frame[p].lookups = 1
           /\ frame[p].log = <<>>
           /\ sessions = 0

(***************************************************************************)
(* SpecRace: models are created on the controller and registered with      *)
(* AddModel while other callers resolve names (ModelUUID, whose miss       *)
(* refills the cache) and ask for the type of a model (ModelType).  No     *)
(* model is removed.                                                       *)
(***************************************************************************)
InitRace ==
    /\ modelCache = {}
    /\ NewClientState({[ClientID |-> "", ClientSecret |-> ""]}, {{}})
    /\ EngineIdle
    /\ GatePassed
    /\ DiffIdle
    /\ RoundTripIdle

NextRace ==
    \/ \E rec \in KnownRecords : CreateModel(rec)
    \/ \E p \in Callers :
           \/ ModelUUID(p)
           \/ \E rec \in KnownRecords : RegisterModel(p, rec)
           \/ \E name \in ModelNames : CallModelType(p, name)

SpecRace == InitRace /\ [][NextRace]_vars

\* q's AddModel of the name had returned when p asked for the model's type
AddedBefore(q, p) ==
    /\ frame[q].call = "AddModel"
    /\ frame[p].call = "ModelType"
    /\ frame[q].name = frame[p].name
    /\ frame[q].seq <= frame[p].seq

\* C32: a ModelType(name) issued after an AddModel of the name returned, no
\* RemoveModel having been called, finds the model, however the AddModel was
\* interleaved with the refill of another caller.
C32_AddedStaysResolvable ==
    \A p, q \in Callers : AddedBefore(q, p) => frame[p].err = ""

(***************************************************************************)
(* The target identity of the access resources: the resource information   *)
(* the constructors build, and Identity, which the handlers call with the  *)
(* plan (Create) or the state (Read, Update, Delete) of the grant.         *)
(***************************************************************************)
\* NewJAASAccessResourceByUUID(displayName, tag): the literal sets displayName only
NewJAASAccessResourceByUUID(displayName, tag) ==
    [displayName |-> displayName, tag |-> ""]

NewJAASAccessResourceByName(displayName, tag) ==
    [displayName |-> displayName, tag |-> tag]

\* jaasAccessResourceByUUID.Identity
IdentityByUUID(info, getter) == info.tag \o "-" \o String(getter.UUID)

TargetKinds == {"model", "controller", "cloud"}
Identifiers == {"1234", "abcd", "prod"}
Handlers == {"Create", "Read", "Update", "Delete"}

\* the identity the handler of a resource computes: grant tells the
\* constructor, its tag argument, the configured uuid or name and the handler
IdentityOf(g) ==
    IF g.constructor = "ByUUID"
    THEN IdentityByUUID(NewJAASAccessResourceByUUID(g.tag, g.tag),
                        [UUID |-> StringValue(g.id)])
    ELSE Identity(NewJAASAccessResourceByName(g.tag, g.tag),
                  [Name |-> StringValue(g.id)])

InitIdentity ==
    /\ grant \in [constructor : {"ByUUID", "ByName"}, tag : TargetKinds,
                  id : Identifiers, handler : Handlers]
    /\ folded = NoState
    /\ EngineIdle
    /\ GatePassed
    /\ DiffIdle
    /\ ClientIdle

IdentityCall ==
    /\ folded = NoState
    /\ folded' = [identity |-> IdentityOf(grant)]
    /\ UNCHANGED <<grant, engineVars, gateVars, diffVars, clientVars>>

NextIdentity == IdentityCall

SpecIdentity == InitIdentity /\ [][NextIdentity]_vars

\* C33: Identity of a resource built by NewJAASAccessResourceByUUID or
\* NewJAASAccessResourceByName with the kind tag returns tag, "-" and the
\* configured uuid or name, the kind never empty, the same in Create, Read,
\* Update and Delete.
C33_Identity ==
    folded # NoState =>
        /\ grant.tag # ""
        /\ folded.identity = grant.tag \o "-" \o grant.id

(***************************************************************************)
(* Update of the by-UUID access-model resource                             *)
(* (genericJAASAccessModelResource), up to its UpdateAccessModel call.     *)
(***************************************************************************)
\* getMissingUsers(oldUsers, newUsers): the old users that are not new users
getMissingUsers(oldUsers, newUsers) == diffSet(oldUsers, newUsers)

\* getAddedUsers(oldUsers, newUsers): the new users that are not old users
getAddedUsers(oldUsers, newUsers) == diffSet(newUsers, oldUsers)

AccessNames == {"reader", "admin"}

\* the Users and Access of genericJAASAccessResourceModel
AccessModels == [Users : UserLists, Access : AccessNames]

\* what Update passes to UpdateAccessModel, or that it returned without a call
UpdateAccessModelInput(plan, st) ==
    LET planUsers == plan.Users
        usersChanged == Elems(plan.Users) # Elems(st.Users)
        \* resp.Diagnostics.Append(plan.Users.ElementsAs(ctx, &stateUsers, false)...)
        stateUsers == plan.Users
        accessChanged == plan.Access # st.Access
    IN [called |-> usersChanged \/ accessChanged,
        Grant |-> IF usersChanged
                  THEN getAddedUsers(stateUsers, planUsers) ELSE <<>>,
        Revoke |-> IF usersChanged
                   THEN getMissingUsers(stateUsers, planUsers) ELSE <<>>,
        Access |-> IF accessChanged THEN plan.Access ELSE st.Access]

InitAccessModel ==
    /\ diffIn \in AccessModels \X AccessModels
    /\ diffOut = NoState
    /\ EngineIdle
    /\ GatePassed
    /\ RoundTripIdle
    /\ ClientIdle

AccessModelUpdate ==
    /\ diffOut = NoState
    /\ diffOut' = UpdateAccessModelInput(diffIn[1], diffIn[2])
    /\ UNCHANGED <<diffIn, engineVars, gateVars, roundTripVars, clientVars>>

NextAccessModel == AccessModelUpdate

SpecAccessModel == InitAccessModel /\ [][NextAccessModel]_vars

\* C34: when the planned users differ from the users of the state, Update of
\* the by-UUID access-model resource passes as Revoke the users of the state
\* that the plan lacks and as Grant the users of the plan that the state
\* lacks.
C34_GrantRevoke ==
    (diffOut # NoState /\ Elems(diffIn[1].Users) # Elems(diffIn[2].Users)) =>
        /\ diffOut.called
        /\ Elems(diffOut.Revoke) = Elems(diffIn[2].Users) \ Elems(diffIn[1].Users)
        /\ Elems(diffOut.Grant) = Elems(diffIn[1].Users) \ Elems(diffIn[2].Users)
====
